---- MODULE Spec2Model ----
(***************************************************************************)
(* Model of nuitka/transform/optimizations/OptimizeRaises.py: the visitor  *)
(* OptimizeRaisesVisitor that propagates unconditional raises upwards.     *)
(*                                                                         *)
(* A node is a record [kind, name, nse, kids]:                             *)
(*   kind  the node kind, as asked by node.isXxx()                         *)
(*   name  the exception name or variable name, "" when there is none      *)
(*   kids  the visitable children, in evaluation order                     *)
(*   nse   how many leading kids are side effects attached by              *)
(*         addSideEffects (only raise nodes have nse > 0)                  *)
(* A node is identified by its path from the root (child indexes), which   *)
(* stands for Python object identity ("node is statements[-1]").           *)
(***************************************************************************)
EXTENDS Integers, Sequences, FiniteSets

\* ------------------------------------------------------------------ bounds
MaxStatements == 4      \* longest module-level statement sequence
MaxArgs == 2            \* most operands of an operation, call, print, tuple
MaxRuns == 2            \* how often the outer driver applies the pass

\* ------------------------------------------------------------- node kinds
Node(k, n, c) == [kind |-> k, name |-> n, nse |-> 0, kids |-> c]

NoneValue == Node("None", "", <<>>)

Var(n) == Node("ExpressionVariableRef", n, <<>>)
BuiltinExceptionRef(n) == Node("ExpressionBuiltinExceptionRef", n, <<>>)
BuiltinMakeException(n) == Node("ExpressionBuiltinMakeException", n, <<>>)
RaiseExpr(t) == Node("ExpressionRaiseException", "", <<t>>)
Operation(args) == Node("ExpressionOperation", "", args)
FunctionCall(args) == Node("ExpressionFunctionCall", "", <<Var("f")>> \o args)
MakeTuple(args) == Node("ExpressionMakeSequence", "", args)

ExpressionOnly(e) == Node("StatementExpressionOnly", "", <<e>>)
PrintStmt(args) == Node("StatementPrint", "", args)
RaiseStmt(c) == Node("StatementRaiseException", "", c)
Assignment(e) == Node("StatementAssignment", "", <<e>>)
Return(e) == Node("StatementReturn", "", <<e>>)
StatementsSequence(s) == Node("StatementsSequence", "", s)
ExceptHandler(types, branch) == Node("StatementExceptHandler", "", types \o <<branch>>)
TryExcept(tried, handlers) == Node("StatementTryExcept", "", <<tried>> \o handlers)
TryExceptElse(tried, handlers, no_raise) ==
    Node("StatementTryExcept", "", <<tried>> \o handlers \o <<no_raise>>)
Module(body) == Node("Module", "", <<body>>)

\* The branches of the dispatch of generateExpressionCode that the emission
\* layer serves with the translated children.
OtherDispatchedExpressionKinds ==
    {"ExpressionTempVariableRef", "ExpressionOperation", "ExpressionOperationNOT",
     "ExpressionFunctionCall",
     "ExpressionAttributeLookup", "ExpressionSpecialAttributeLookup",
     "ExpressionImportName", "ExpressionSubscriptLookup", "ExpressionSliceObject",
     "ExpressionBoolOR", "ExpressionBoolAND", "ExpressionConditional",
     "ExpressionBuiltinRange", "ExpressionBuiltinGlobals", "ExpressionBuiltinLocals",
     "ExpressionBuiltinDir0", "ExpressionBuiltinVars", "ExpressionBuiltinEval",
     "ExpressionBuiltinExec", "ExpressionBuiltinExecfile", "ExpressionBuiltinOpen",
     "ExpressionFunctionBody", "ExpressionFunctionBodyDefaulted",
     "ExpressionClassBody", "ExpressionClassBodyBased", "ExpressionComparison",
     "ExpressionYield", "ExpressionImportModule", "ExpressionBuiltinImport",
     "ExpressionBuiltinChr", "ExpressionBuiltinOrd", "ExpressionBuiltinBin",
     "ExpressionBuiltinOct", "ExpressionBuiltinHex", "ExpressionBuiltinLen",
     "ExpressionBuiltinIter1", "ExpressionBuiltinIter2", "ExpressionBuiltinNext1",
     "ExpressionSpecialUnpack", "ExpressionBuiltinNext2", "ExpressionBuiltinType1",
     "ExpressionBuiltinType3", "ExpressionBuiltinTuple", "ExpressionBuiltinList",
     "ExpressionBuiltinDict", "ExpressionBuiltinStr", "ExpressionBuiltinUnicode",
     "ExpressionBuiltinFloat", "ExpressionBuiltinBool", "ExpressionRaiseException",
     "ExpressionBuiltinMakeException", "ExpressionBuiltinRef",
     "ExpressionBuiltinAnonymousRef", "ExpressionBuiltinExceptionRef",
     "ExpressionAssignmentVariable", "ExpressionBuiltinInt",
     "ExpressionCaughtExceptionTypeRef", "ExpressionCaughtExceptionValueRef",
     "ExpressionCaughtExceptionTracebackRef", "ExpressionListOperationAppend",
     "ExpressionSetOperationAdd", "ExpressionDictOperationSet"}

\* Every node kind that answers isExpression() with true: the dispatched
\* ones, the key/value pair of a dict literal, which has no branch, and the
\* sequence literal as the optimizer sees it.
ExpressionKinds ==
    OtherDispatchedExpressionKinds \cup
    {"ExpressionVariableRef", "ExpressionConstantRef", "ExpressionMakeTuple",
     "ExpressionMakeList", "ExpressionMakeSet", "ExpressionMakeDict",
     "ExpressionSliceLookup", "ExpressionBuiltinLong", "ExpressionKeyValuePair", "ExpressionMakeSequence"}

\* node.isExpression() / node.isStatement()
isExpression(node) == node.kind \in ExpressionKinds

\* The branches of the dispatch of _generateStatementCode that the emission
\* layer serves with the translated children.
OtherDispatchedStatementKinds ==
    {"StatementAssignmentVariable", "StatementAssignmentAttribute",
     "StatementAssignmentSubscript", "StatementAssignmentSlice",
     "StatementDelVariable", "StatementDelSubscript", "StatementDelSlice",
     "StatementDelAttribute", "StatementTempBlock", "StatementExpressionOnly",
     "StatementPrint", "StatementReturn", "StatementLoop", "StatementConditional",
     "StatementContinueLoop", "StatementBreakLoop", "StatementImportStar",
     "StatementTryFinally", "StatementExec", "StatementExecInline",
     "StatementSpecialUnpackCheck"}

\* Every node kind that answers isStatement() with true: the dispatched
\* ones, and the sequence, the handler and the assignment of the optimizer's
\* trees, which have no branch.
StatementKinds ==
    OtherDispatchedStatementKinds \cup
    {"StatementTryExcept", "StatementRaiseException", "StatementDeclareGlobal",
     "StatementsSequence", "StatementExceptHandler", "StatementAssignment"}

isStatement(node) == node.kind \in StatementKinds

isExpressionRaiseException(node) == node.kind = "ExpressionRaiseException"
isStatementRaiseException(node) == node.kind = "StatementRaiseException"
isStatementsSequence(node) == node.kind = "StatementsSequence"
isStatementTryExcept(node) == node.kind = "StatementTryExcept"
isExpressionBuiltinExceptionRef(node) == node.kind = "ExpressionBuiltinExceptionRef"
isExpressionBuiltinMakeException(node) == node.kind = "ExpressionBuiltinMakeException"

\* Faulty variant of isTrimParent: the branch for a function call is missing.
isTrimParentNoCall(node) ==
    node.kind \in {"StatementPrint", "ExpressionOperation", "StatementExpressionOnly",
                   "StatementRaiseException"}

\* Faulty variant of isTrimParent: a tuple construction is collapsed too.
isTrimParentAlsoTuple(node) ==
    node.kind \in {"StatementPrint", "ExpressionOperation", "ExpressionFunctionCall",
                   "StatementExpressionOnly", "StatementRaiseException",
                   "ExpressionMakeSequence"}

\* The parents around which onEnterNode collapses a raising child.
isTrimParent(node) ==
    node.kind \in {"StatementPrint", "ExpressionOperation", "ExpressionFunctionCall",
                   "StatementExpressionOnly", "StatementRaiseException"}

\* node.mayHaveSideEffects(): references to variables and to built-in
\* exceptions have none; every other expression may have.
mayHaveSideEffects(node) ==
    node.kind \notin {"ExpressionVariableRef", "ExpressionBuiltinExceptionRef"}

\* ------------------------------------------------------------ tree access
getVisitableNodes(node) == node.kids

RECURSIVE NodeAt(_, _)
NodeAt(t, p) == IF p = <<>> THEN t ELSE NodeAt(t.kids[Head(p)], Tail(p))

\* node.replaceWith( new_node ) for the node at path p
RECURSIVE replaceWith(_, _, _)
replaceWith(t, p, new) ==
    IF p = <<>> THEN new
    ELSE [t EXCEPT !.kids = [@ EXCEPT ![Head(p)] = replaceWith(@, Tail(p), new)]]

ParentPath(p) == SubSeq(p, 1, Len(p) - 1)
ChildIndex(p) == p[Len(p)]

\* The order in which visitTree enters the nodes: a node, then its
\* visitable children from first to last.
RECURSIVE PreOrder(_, _)
RECURSIVE PreOrderKids(_, _, _)
PreOrder(t, p) == <<p>> \o PreOrderKids(t, p, 1)
PreOrderKids(t, p, i) ==
    IF i > Len(t.kids) THEN <<>>
    ELSE PreOrder(t.kids[i], Append(p, i)) \o PreOrderKids(t, p, i + 1)

RECURSIVE Size(_)
RECURSIVE SizeKids(_, _)
Size(t) == 1 + SizeKids(t, 1)
SizeKids(t, i) == IF i > Len(t.kids) THEN 0 ELSE Size(t.kids[i]) + SizeKids(t, i + 1)

\* --------------------------------------------------------- node operations
getSideEffects(node) == SubSeq(node.kids, 1, node.nse)

\* raise_exception.addSideEffects( side_effects ): evaluated before what the
\* raise already evaluates.
addSideEffects(node, side_effects) ==
    [node EXCEPT !.kids = side_effects \o @, !.nse = @ + Len(side_effects)]

\* node.getExceptionType() of a raise statement; None for a bare "raise".
getExceptionType(node) ==
    IF Len(node.kids) > node.nse THEN node.kids[node.nse + 1] ELSE NoneValue

getExceptionName(node) == node.name

\* The raise statement made of a raise expression: same side effects, same
\* exception type and value.
convertRaiseExceptionExpressionRaiseExceptionStatement(node) ==
    [node EXCEPT !.kind = "StatementRaiseException"]

getStatements(node) == node.kids

\* sequence.trimStatements( statement ): keep up to and including the
\* statement, which is the idx-th of the sequence.
trimStatements(node, idx) == [node EXCEPT !.kids = SubSeq(@, 1, idx)]

getExceptionHandlers(node) ==
    SelectSeq(node.kids, LAMBDA k : k.kind = "StatementExceptHandler")

\* handler.getExceptionTypes(): the tuple of caught type expressions
getExceptionTypes(handler) ==
    Node("tuple", "", SubSeq(handler.kids, 1, Len(handler.kids) - 1))

\* ------------------------------------------------------- matchesException
MatchTrue == "True"
MatchFalse == "False"
MatchNone == "None"

\* Faulty variant of matchesExceptionLoop: a raised exception construction
\* is not recognized.
RECURSIVE matchesExceptionLoopRefOnly(_, _, _)
matchesExceptionLoopRefOnly(catched, raised_exception, i) ==
    IF i > Len(catched) THEN MatchNone
    ELSE IF /\ isExpressionBuiltinExceptionRef(catched[i])
            /\ isExpressionBuiltinExceptionRef(raised_exception)
            /\ getExceptionName(catched[i]) = getExceptionName(raised_exception)
         THEN MatchTrue
    ELSE matchesExceptionLoopRefOnly(catched, raised_exception, i + 1)

\* Faulty variant of matchesExceptionLoop: the names are not compared.
RECURSIVE matchesExceptionLoopAnyName(_, _, _)
matchesExceptionLoopAnyName(catched, raised_exception, i) ==
    IF i > Len(catched) THEN MatchNone
    ELSE IF /\ isExpressionBuiltinExceptionRef(catched[i])
            /\ \/ isExpressionBuiltinExceptionRef(raised_exception)
               \/ isExpressionBuiltinMakeException(raised_exception)
         THEN MatchTrue
    ELSE matchesExceptionLoopAnyName(catched, raised_exception, i + 1)

\* Faulty variant of matchesExceptionLoop: when no caught type has the name
\* of the raised exception the answer is a definite False.
RECURSIVE matchesExceptionLoopDefiniteFalse(_, _, _)
matchesExceptionLoopDefiniteFalse(catched, raised_exception, i) ==
    IF i > Len(catched) THEN MatchFalse
    ELSE IF /\ isExpressionBuiltinExceptionRef(catched[i])
            /\ \/ isExpressionBuiltinExceptionRef(raised_exception)
               \/ isExpressionBuiltinMakeException(raised_exception)
            /\ getExceptionName(catched[i]) = getExceptionName(raised_exception)
         THEN MatchTrue
    ELSE matchesExceptionLoopDefiniteFalse(catched, raised_exception, i + 1)

\* The loop over catched_exceptions, from the i-th on.
RECURSIVE matchesExceptionLoop(_, _, _)
matchesExceptionLoop(catched, raised_exception, i) ==
    IF i > Len(catched) THEN MatchNone
    ELSE IF /\ isExpressionBuiltinExceptionRef(catched[i])
            /\ isExpressionBuiltinExceptionRef(raised_exception)
            /\ getExceptionName(catched[i]) = getExceptionName(raised_exception)
         THEN MatchTrue
    ELSE IF /\ isExpressionBuiltinExceptionRef(catched[i])
            /\ isExpressionBuiltinMakeException(raised_exception)
            /\ getExceptionName(catched[i]) = getExceptionName(raised_exception)
         THEN MatchTrue
    ELSE matchesExceptionLoop(catched, raised_exception, i + 1)

\* Faulty variant of matchesException: an empty tuple of caught types is
\* taken like None, as catching everything.
matchesExceptionEmptyCatchesAll(catched_exceptions, raised_exception) ==
    IF catched_exceptions = NoneValue \/ catched_exceptions.kids = <<>> THEN MatchTrue
    ELSE IF raised_exception # NoneValue
         THEN matchesExceptionLoop(catched_exceptions.kids, raised_exception, 1)
         ELSE MatchNone

matchesException(catched_exceptions, raised_exception) ==
    IF catched_exceptions = NoneValue THEN MatchTrue
    ELSE IF raised_exception # NoneValue
         THEN matchesExceptionLoop(catched_exceptions.kids, raised_exception, 1)
         ELSE MatchNone

\* ---------------------------------------------------------- trimEvaluation
\* Faulty variant of FirstRaise: the loop does not break, the last raising
\* child is taken.
LastRaise(children) ==
    CHOOSE i \in 1..Len(children) :
        /\ isExpressionRaiseException(children[i])
        /\ \A j \in (i + 1)..Len(children) : ~isExpressionRaiseException(children[j])

\* Index of the first raising child: where the loop over old_children breaks.
FirstRaise(children) ==
    CHOOSE i \in 1..Len(children) :
        /\ isExpressionRaiseException(children[i])
        /\ \A j \in 1..(i - 1) : ~isExpressionRaiseException(children[j])

\* Faulty variant of trimEvaluationNode: the side effects are not attached.
trimEvaluationNodeDropsSideEffects(node) ==
    LET old_children == getVisitableNodes(node)
        raise_exception == old_children[FirstRaise(old_children)]
    IN  IF isExpression(node) THEN raise_exception
        ELSE convertRaiseExceptionExpressionRaiseExceptionStatement(raise_exception)

\* The node that replaces the node it is called for.
trimEvaluationNode(node) ==
    LET old_children == getVisitableNodes(node)
        new_children == SubSeq(old_children, 1, FirstRaise(old_children))
        side_effects == SelectSeq(SubSeq(new_children, 1, Len(new_children) - 1),
                                  mayHaveSideEffects)
        raise_exception ==
            IF side_effects # <<>>
            THEN addSideEffects(new_children[Len(new_children)], side_effects)
            ELSE new_children[Len(new_children)]
    IN  IF isExpression(node) THEN raise_exception
        ELSE convertRaiseExceptionExpressionRaiseExceptionStatement(raise_exception)

\* The tree after trimEvaluation( node ) for the node at path p.
trimEvaluation(t, p) == replaceWith(t, p, trimEvaluationNode(NodeAt(t, p)))

\* The change tag trimEvaluation signals.
trimEvaluationTag(node) ==
    IF isExpression(node) THEN "new_raise" ELSE "new_raise new_statements"

\* ------------------------------------------------------ the trees optimized
SeqsUpTo(S, n) == UNION {[1..k -> S] : k \in 1..n}

Atoms == {Var("a"), FunctionCall(<<>>)}
Raisers == {RaiseExpr(BuiltinExceptionRef("ValueError")),
            RaiseExpr(BuiltinMakeException("TypeError"))}
Operands == Atoms \cup Raisers
ArgLists == SeqsUpTo(Operands, MaxArgs)
Compounds == {Operation(a) : a \in ArgLists} \cup {FunctionCall(a) : a \in ArgLists}
             \cup {MakeTuple(a) : a \in ArgLists}
Inner == {Operation(<<y, r>>) : y \in Atoms, r \in Raisers}
         \cup {MakeTuple(<<r>>) : r \in Raisers}
Nested == {FunctionCall(<<x, c>>) : x \in Atoms, c \in Inner}
          \cup {Operation(<<c, r>>) : c \in Inner, r \in Raisers}
Exprs == Compounds \cup Nested \cup Raisers

PlainStatements ==
    {ExpressionOnly(e) : e \in Exprs}
    \cup {PrintStmt(a) : a \in ArgLists}
    \cup {RaiseStmt(<<>>)}
    \cup {RaiseStmt(<<e>>) : e \in Operands \cup {BuiltinExceptionRef("ValueError")}}
    \cup {RaiseStmt(<<e1, e2>>) :
              e1 \in {BuiltinExceptionRef("ValueError"), FunctionCall(<<>>)},
              e2 \in Operands}
    \cup {Assignment(e) : e \in Raisers \cup Inner}
    \cup {Return(e) : e \in Raisers \cup Inner}

TypeExprs == {BuiltinExceptionRef("ValueError"), BuiltinExceptionRef("TypeError"),
              Var("E")}
TypeLists == {<<>>} \cup {<<t>> : t \in TypeExprs}
             \cup {<<Var("E"), BuiltinExceptionRef("ValueError")>>,
                   <<BuiltinExceptionRef("TypeError"), BuiltinExceptionRef("ValueError")>>}
Branch == StatementsSequence(<<ExpressionOnly(Var("a"))>>)
Handlers == {ExceptHandler(t, Branch) : t \in TypeLists}
HandlerLists ==
    {<<h>> : h \in Handlers}
    \cup {<<ExceptHandler(<<BuiltinExceptionRef("TypeError")>>, Branch),
            ExceptHandler(<<BuiltinExceptionRef("ValueError")>>, Branch)>>,
          <<ExceptHandler(<<Var("E")>>, Branch),
            ExceptHandler(<<BuiltinExceptionRef("TypeError")>>, Branch)>>}
TriedBlocks ==
    {StatementsSequence(<<RaiseStmt(c)>>) :
         c \in {<<>>, <<BuiltinExceptionRef("ValueError")>>,
                <<BuiltinMakeException("TypeError")>>, <<Var("a")>>}}
    \cup {StatementsSequence(<<RaiseStmt(<<BuiltinExceptionRef("ValueError")>>),
                               ExpressionOnly(Var("a"))>>),
          StatementsSequence(<<ExpressionOnly(Var("a")),
                               RaiseStmt(<<BuiltinExceptionRef("ValueError")>>)>>),
          StatementsSequence(<<ExpressionOnly(RaiseExpr(BuiltinExceptionRef("ValueError")))>>)}
TryStatements ==
    {TryExcept(b, h) : b \in TriedBlocks, h \in HandlerLists}
    \cup {TryExceptElse(Branch, <<ExceptHandler(<<t>>, Branch)>>,
                        StatementsSequence(<<RaiseStmt(<<BuiltinExceptionRef("ValueError")>>)>>)) :
              t \in TypeExprs}

Statements == PlainStatements \cup TryStatements

\* The statements around the one of interest.
Simple == {ExpressionOnly(Var("a"))}
Prefixes == {<<>>, <<ExpressionOnly(FunctionCall(<<>>))>>}
Suffixes(n) == {<<>>} \cup SeqsUpTo(Simple, n)
BodiesOf(statements) ==
    UNION {{pre \o <<st>> \o suf :
                st \in statements,
                suf \in Suffixes(MaxStatements - 1 - Len(pre))} :
           pre \in Prefixes}
Bodies == BodiesOf(Statements)
Trees == {Module(StatementsSequence(b)) : b \in Bodies}

\* The trees with the most to rewrite: nested raising expressions, and try
\* statements of each shape of tried block.
DeepStatements ==
    {ExpressionOnly(e) : e \in Nested}
    \cup {TryExcept(b, <<ExceptHandler(<<BuiltinExceptionRef("ValueError")>>, Branch)>>) :
              b \in TriedBlocks}
DeepTrees == {Module(StatementsSequence(<<st>> \o suf)) :
                  st \in DeepStatements, suf \in Suffixes(1)}

\* ------------------------------------------------------------------- state
VARIABLES
    tree,       \* the tree being optimized, mutated in place
    pos,        \* visitTree: index in PreOrder(tree) of the node to enter next
    pc,         \* "visit" | "done" | "aborted" (an assertion failed)
    signals,    \* the tags given to signalChange in this run, in order
    restarts,   \* how many RestartVisit were raised in this run
    run,        \* which application of the pass by the outer driver
    tree0,      \* the tree the first run started from
    before,     \* the tree before the last onEnterNode
    visited,    \* path of the node the last onEnterNode was called for
    rule,       \* what the last onEnterNode did
    queries,    \* the matchesException calls of the last onEnterNode
    gen         \* the call into nuitka/codegen/CodeGeneration.py under way

vars == <<tree, pos, pc, signals, restarts, run, tree0, before, visited, rule, queries,
          gen>>

\* The optimizer does not call the code generation.
NoCall == [op |-> "none"]

InitOf(trees) ==
    /\ tree \in trees
    /\ pos = 1
    /\ pc = "visit"
    /\ signals = <<>>
    /\ restarts = 0
    /\ run = 1
    /\ tree0 = tree
    /\ before = tree
    /\ visited = <<>>
    /\ rule = "start"
    /\ queries = <<>>
    /\ gen = NoCall

Init == InitOf(Trees)

InitDeep == InitOf(DeepTrees)

\* ------------------------------------------------------------- the visitor
Order == PreOrder(tree, <<>>)
Entering == pc = "visit" /\ pos <= Len(Order)
CurrentPath == Order[pos]
CurrentNode == NodeAt(tree, CurrentPath)
CurrentParent == NodeAt(tree, ParentPath(CurrentPath))

\* self.signalChange( tags, source_ref, message )
signalChange(sigs, tags) == Append(sigs, tags)

\* Faulty variant of the test below: the last statement passes it too.
isNotLastStatementAlways(statements, idx) == idx <= Len(statements)

\* Faulty variant of the test below: compares with the first statement.
isNotLastStatementFirst(statements, idx) == idx # 1

\* Faulty variant of the test below: no statement passes it.
isNotLastStatementNever(statements, idx) == FALSE

\* "node is not statements[-1]" for the idx-th statement
isNotLastStatement(statements, idx) == idx # Len(statements)

\* "node is statements[0]" for the idx-th statement
isFirstStatement(statements, idx) == idx = 1

\* The loop over the handlers of the try statement, from the i-th on: the
\* matchesException calls it makes, up to the one that ends it.
RECURSIVE handlerLoop(_, _, _)
handlerLoop(handlers, raised_exception, i) ==
    IF i > Len(handlers) THEN <<>>
    ELSE LET catched == getExceptionTypes(handlers[i])
             match == matchesException(catched, raised_exception)
             call == [catched_exceptions |-> catched.kids,
                      raised_exception |-> raised_exception,
                      match |-> match]
         IN  IF match = MatchTrue THEN <<call>>
             ELSE IF match = MatchFalse THEN <<call>>
             ELSE <<call>> \o handlerLoop(handlers, raised_exception, i + 1)

\* What every onEnterNode records.
Entered(what, calls) ==
    /\ before' = tree
    /\ visited' = CurrentPath
    /\ rule' = what
    /\ queries' = calls
    /\ UNCHANGED <<run, tree0, gen>>

\* raise RestartVisit after a signalled change: visitTree starts over.
RestartVisit(new_tree, tags) ==
    /\ tree' = new_tree
    /\ signals' = signalChange(signals, tags)
    /\ restarts' = restarts + 1
    /\ pos' = 1

\* onEnterNode returns normally: visitTree goes on to the next node.
Return0 ==
    /\ pos' = pos + 1
    /\ UNCHANGED <<tree, signals, restarts>>

\* A raising expression below one of the five kinds of parent.
EnterRaiseExpressionTrim ==
    /\ Entering
    /\ isExpressionRaiseException(CurrentNode)
    /\ isTrimParent(CurrentParent)
    /\ RestartVisit(trimEvaluation(tree, ParentPath(CurrentPath)),
                    trimEvaluationTag(CurrentParent))
    /\ pc' = IF isExpression(CurrentParent) \/ isStatement(CurrentParent)
             THEN pc ELSE "aborted"
    /\ Entered("trimEvaluation", <<>>)

\* A raising expression below any other parent.
EnterRaiseExpressionOther ==
    /\ Entering
    /\ isExpressionRaiseException(CurrentNode)
    /\ ~isTrimParent(CurrentParent)
    /\ Return0
    /\ UNCHANGED pc
    /\ Entered("none", <<>>)

\* A raise statement that is not the last of its statement sequence.
EnterRaiseStatementTrim ==
    /\ Entering
    /\ isStatementRaiseException(CurrentNode)
    /\ isStatementsSequence(CurrentParent)
    /\ isNotLastStatement(getStatements(CurrentParent), ChildIndex(CurrentPath))
    /\ RestartVisit(replaceWith(tree, ParentPath(CurrentPath),
                                trimStatements(CurrentParent, ChildIndex(CurrentPath))),
                    "new_raise new_statements")
    /\ UNCHANGED pc
    /\ Entered("trimStatements", <<>>)

\* handler.getExceptionBranch()
getExceptionBranch(handler) == handler.kids[Len(handler.kids)]

\* Faulty variant of onMatchTrue: the return is missing and the try statement
\* is replaced by the branch of the matching handler.
onMatchTrueReplaces(t, try_path, handler) ==
    replaceWith(t, try_path, getExceptionBranch(handler))

\* "if match is True: return": the tree when a handler is known to catch the
\* raise. The replacement of the try statement by the handler's branch
\* comes after the return and is not executed.
onMatchTrue(t, try_path, handler) == t

\* A raise statement that is the first and last statement of a sequence
\* directly below a try statement: the handlers are matched, nothing is
\* rewritten.
EnterRaiseStatementTry ==
    /\ Entering
    /\ isStatementRaiseException(CurrentNode)
    /\ isStatementsSequence(CurrentParent)
    /\ ~isNotLastStatement(getStatements(CurrentParent), ChildIndex(CurrentPath))
    /\ isStatementTryExcept(NodeAt(tree, ParentPath(ParentPath(CurrentPath))))
    /\ isFirstStatement(getStatements(CurrentParent), ChildIndex(CurrentPath))
    /\ LET try_path == ParentPath(ParentPath(CurrentPath))
           handlers == getExceptionHandlers(NodeAt(tree, try_path))
           calls == handlerLoop(handlers, getExceptionType(CurrentNode), 1)
           last == IF calls = <<>> THEN MatchNone ELSE calls[Len(calls)].match
       IN  /\ tree' = IF last = MatchTrue
                      THEN onMatchTrue(tree, try_path, handlers[Len(calls)])
                      ELSE tree
           /\ pc' = IF last = MatchFalse THEN "aborted" ELSE pc
           /\ Entered("handlers", calls)
    /\ pos' = pos + 1
    /\ UNCHANGED <<signals, restarts>>

\* Any other raise statement.
EnterRaiseStatementOther ==
    /\ Entering
    /\ isStatementRaiseException(CurrentNode)
    /\ \/ ~isStatementsSequence(CurrentParent)
       \/ /\ isStatementsSequence(CurrentParent)
          /\ ~isNotLastStatement(getStatements(CurrentParent), ChildIndex(CurrentPath))
          /\ ~ /\ isStatementTryExcept(NodeAt(tree, ParentPath(ParentPath(CurrentPath))))
               /\ isFirstStatement(getStatements(CurrentParent), ChildIndex(CurrentPath))
    /\ Return0
    /\ UNCHANGED pc
    /\ Entered("none", <<>>)

\* A node that is neither a raise expression nor a raise statement.
EnterOtherNode ==
    /\ Entering
    /\ ~isExpressionRaiseException(CurrentNode)
    /\ ~isStatementRaiseException(CurrentNode)
    /\ Return0
    /\ UNCHANGED pc
    /\ Entered("none", <<>>)

onEnterNode ==
    \/ EnterRaiseExpressionTrim
    \/ EnterRaiseExpressionOther
    \/ EnterRaiseStatementTrim
    \/ EnterRaiseStatementTry
    \/ EnterRaiseStatementOther
    \/ EnterOtherNode

\* visitTree has entered every node without a RestartVisit.
PassComplete ==
    /\ pc = "visit"
    /\ pos > Len(Order)
    /\ pc' = "done"
    /\ UNCHANGED <<tree, pos, signals, restarts, run, tree0, before, visited, rule, queries,
                   gen>>

\* The outer driver applies the pass again to the tree it left.
Rerun ==
    /\ pc = "done"
    /\ run < MaxRuns
    /\ run' = run + 1
    /\ pc' = "visit"
    /\ pos' = 1
    /\ signals' = <<>>
    /\ restarts' = 0
    /\ before' = tree
    /\ visited' = <<>>
    /\ rule' = "start"
    /\ queries' = <<>>
    /\ UNCHANGED <<tree, tree0, gen>>

Next == onEnterNode \/ PassComplete \/ Rerun

Spec == Init /\ [][Next]_vars

\* The pass is one synchronous call: it runs until it completes or aborts.
FairSpec == InitDeep /\ [][Next]_vars /\ WF_vars(Next)

\* ============================================================================
\* Model of nuitka/codegen/CodeGeneration.py.  The generator only reads the
\* tree; each function is an operator from its arguments to what it returns,
\* and a call is one step of `gen` from pc "call" to pc "return".  Text
\* (attribute names, code) is a sequence of one-character strings.

\* ---------------------------------------------------------------------- text
startswith(text, prefix) ==
    /\ Len(text) >= Len(prefix)
    /\ SubSeq(text, 1, Len(prefix)) = prefix

endswith(text, suffix) ==
    /\ Len(text) >= Len(suffix)
    /\ SubSeq(text, Len(text) - Len(suffix) + 1, Len(text)) = suffix

RECURSIVE TextsOfLen(_, _)
TextsOfLen(chars, n) ==
    IF n = 0 THEN {<<>>}
    ELSE {<<c>> \o t : c \in chars, t \in TextsOfLen(chars, n - 1)}

TextsUpTo(chars, n) == UNION {TextsOfLen(chars, k) : k \in 0..n}

\* --------------------------------------------------------- mangleAttributeName
MaxNameLen == 3         \* longest attribute name
MaxDepth == 3           \* most ancestors of the attribute lookup

\* An ancestor of the lookup, as far as the walk asks: its kind and name.
ClassBody(name) == [kind |-> "ExpressionClassBody", name |-> name]
FunctionBody == [kind |-> "ExpressionFunctionBody", name |-> <<"f">>]
OtherParent == [kind |-> "StatementsSequence", name |-> <<>>]

isExpressionClassBody(node) == node.kind = "ExpressionClassBody"
isExpressionFunctionBody(node) == node.kind = "ExpressionFunctionBody"

\* (alternative walk: the first class body mangles whether or not a function
\* body was crossed)
RECURSIVE mangleWalkAnyClass(_, _, _, _)
mangleWalkAnyClass(attribute_name, parents, i, seen_function) ==
    IF i > Len(parents) THEN attribute_name
    ELSE IF isExpressionClassBody(parents[i])
         THEN <<"_">> \o parents[i].name \o attribute_name
         ELSE mangleWalkAnyClass(attribute_name, parents, i + 1, seen_function)

\* The while loop: parents[i] is what the i-th node.getParent() gives, None
\* after the last one.
RECURSIVE mangleWalk(_, _, _, _)
mangleWalk(attribute_name, parents, i, seen_function) ==
    IF i > Len(parents) THEN attribute_name
    ELSE IF isExpressionClassBody(parents[i])
         THEN IF seen_function
              THEN <<"_">> \o parents[i].name \o attribute_name
              ELSE attribute_name
         ELSE mangleWalk(attribute_name, parents, i + 1,
                         seen_function \/ isExpressionFunctionBody(parents[i]))

mangleAttributeName(attribute_name, parents) ==
    IF ~startswith(attribute_name, <<"_", "_">>) \/ endswith(attribute_name, <<"_", "_">>)
    THEN attribute_name
    ELSE mangleWalk(attribute_name, parents, 1, FALSE)

AttributeNames == TextsUpTo({"_", "x"}, MaxNameLen) \ {<<>>}

ParentKinds == {ClassBody(<<"C">>), ClassBody(<<"D">>), FunctionBody, OtherParent}

ParentChains == UNION {[1..n -> ParentKinds] : n \in 0..MaxDepth}

MangleCalls ==
    {[op |-> "mangleAttributeName", pc |-> "call", attribute_name |-> a,
      parents |-> ps, result |-> <<>>] : a \in AttributeNames, ps \in ParentChains}

CallMangleAttributeName ==
    /\ gen.op = "mangleAttributeName"
    /\ gen.pc = "call"
    /\ gen' = [gen EXCEPT !.pc = "return",
                          !.result = mangleAttributeName(gen.attribute_name, gen.parents)]

\* --------------------------------------------------------------- constants
\* A Python constant is [type, value].  An integer is kept with arbitrary
\* precision, as Python does: a sign and four limbs to base 2^21, most
\* significant first, so that 2^63 and its neighbours are exact.
LimbBase == 2^21

Number(sign, limbs) == [type |-> "int", value |-> [sign |-> sign, limbs |-> limbs]]

IntConstant(n) ==
    Number(IF n < 0 THEN -1 ELSE 1, <<0, 0, 0, IF n < 0 THEN -n ELSE n>>)

\* 2^63 - 1 and 2^63 - 2
MaxIndexLimbs == <<0, LimbBase - 1, LimbBase - 1, LimbBase - 1>>
BelowMaxIndexLimbs == <<0, LimbBase - 1, LimbBase - 1, LimbBase - 2>>

\* A float is kept as its sign, the limbs of its whole part and its tenths.
Float(sign, limbs, tenths) ==
    [type |-> "float", value |-> [sign |-> sign, limbs |-> limbs, tenths |-> tenths]]

\* int( constant ) of a number constant: a float loses its fraction.
int(constant) ==
    Number(IF \A i \in 1..Len(constant.value.limbs) : constant.value.limbs[i] = 0
           THEN 1 ELSE constant.value.sign,
           constant.value.limbs)

Str(text) == [type |-> "str", value |-> text]
Bool(b) == [type |-> "bool", value |-> b]
NoneConstant == [type |-> "NoneType", value |-> "None"]
TupleConstant(items) == [type |-> "tuple", value |-> items]
ListConstant(items) == [type |-> "list", value |-> items]
DictConstant(items) == [type |-> "dict", value |-> items]

\* Constants.isMutable / Constants.isNumberConstant
isMutableConstant(constant) == constant.type \in {"list", "dict", "set"}

isNumberConstant(constant) == constant.type \in {"int", "long", "float"}

\* abs( a ) < abs( b ) for two integers
RECURSIVE LimbsLess(_, _, _)
LimbsLess(a, b, i) ==
    IF i > Len(a) THEN FALSE
    ELSE IF a[i] # b[i] THEN a[i] < b[i]
    ELSE LimbsLess(a, b, i + 1)

\* constant[ key ] = value on a dict kept as its items in insertion order
setItem(items, key, value) ==
    IF \E i \in 1..Len(items) : items[i][1] = key
    THEN [i \in 1..Len(items) |->
             IF items[i][1] = key THEN <<key, value>> ELSE items[i]]
    ELSE Append(items, <<key, value>>)

\* ------------------------------------------------- nodes the generator reads
\* A node with what the generator asks of it besides kind, name and kids:
\* value is the constant of a constant reference, the variable of a variable
\* reference ("None" when the reference was not resolved), and for a
\* statement [code, source_ref, local]; indexable is what node.isIndexable()
\* answers.
GNode(kind, value, kids) ==
    [kind |-> kind, name |-> "", nse |-> 0, kids |-> kids, value |-> value,
     indexable |-> FALSE]

Named(node, name) == [node EXCEPT !.name = name]

Indexable(node) == [node EXCEPT !.indexable = TRUE]

Absent == GNode("None", "", <<>>)

ConstantRef(constant) == GNode("ExpressionConstantRef", constant, <<>>)
VariableRef(variable) == GNode("ExpressionVariableRef", variable, <<>>)
KeyValuePair(key, value) == GNode("ExpressionKeyValuePair", "", <<key, value>>)
MakeSequence(kind, elements) == GNode(kind, "", elements)
SliceLookup(source, lower, upper) ==
    GNode("ExpressionSliceLookup", "", <<source, lower, upper>>)

isNone(node) == node.kind = "None"
isExpressionConstantRef(node) == node.kind = "ExpressionConstantRef"
isExpressionVariableRef(node) == node.kind = "ExpressionVariableRef"
isMutable(node) == isMutableConstant(node.value)
isIndexable(node) == node.indexable
getConstant(node) == node.value
getVariable(node) == node.value
getKey(pair) == pair.kids[1]
getValue(pair) == pair.kids[2]
getLookupSource(node) == node.kids[1]
getLower(node) == node.kids[2]
getUpper(node) == node.kids[3]

\* ---------------------------------------------------------------- emission
\* What the emission layer (Generator) is called with stands for what it
\* returns: [call, with].  An assertion that fails ends the translation of
\* everything around it.
Call(name, arguments) == [call |-> name, with |-> arguments]

AssertionError == Call("AssertionError", <<>>)

NoIdentifier == Call("None", <<>>)

Raised(identifiers) ==
    \E i \in 1..Len(identifiers) : identifiers[i] = AssertionError

Emit(name, identifiers) ==
    IF Raised(identifiers) THEN AssertionError ELSE Call(name, identifiers)

RECURSIVE generateExpressionCode(_, _)

generateExpressionsCode(expressions, python_version) ==
    [i \in 1..Len(expressions) |->
        generateExpressionCode(expressions[i], python_version)]

\* generateExpressionCode( ..., allow_none = True )
generateExpressionCodeAllowNone(expression, python_version) ==
    IF isNone(expression) THEN NoIdentifier
    ELSE generateExpressionCode(expression, python_version)

\* ------------------------------------------------------- literal creation
\* (alternative: no literal is taken for a constant)
areConstantsNever(expressions) == FALSE

areConstants(expressions) ==
    \A i \in 1..Len(expressions) :
        /\ isExpressionConstantRef(expressions[i])
        /\ ~isMutable(expressions[i])

constantsOf(elements) == [i \in 1..Len(elements) |-> getConstant(elements[i])]

generateTupleCreationCode(elements, python_version) ==
    IF areConstants(elements)
    THEN Call("getConstantHandle", <<TupleConstant(constantsOf(elements))>>)
    ELSE Emit("getTupleCreationCode", generateExpressionsCode(elements, python_version))

generateListCreationCode(elements, python_version) ==
    IF areConstants(elements)
    THEN Call("getConstantHandle", <<ListConstant(constantsOf(elements))>>)
    ELSE Emit("getListCreationCode", generateExpressionsCode(elements, python_version))

RECURSIVE zipIntoDict(_, _, _, _)
zipIntoDict(constant, keys, values, i) ==
    IF i > Len(keys) THEN constant
    ELSE zipIntoDict(setItem(constant, getConstant(keys[i]), getConstant(values[i])),
                     keys, values, i + 1)

generateDictionaryCreationCode(pairs, python_version) ==
    LET keys == [i \in 1..Len(pairs) |-> getKey(pairs[i])]
        values == [i \in 1..Len(pairs) |-> getValue(pairs[i])]
    IN  IF areConstants(keys) /\ areConstants(values)
        THEN Call("getConstantHandle", <<DictConstant(zipIntoDict(<<>>, keys, values, 1))>>)
        ELSE Emit("getDictionaryCreationCode",
                  generateExpressionsCode(keys, python_version)
                      \o generateExpressionsCode(values, python_version))

generateSetCreationCode(elements, python_version) ==
    Emit("getSetCreationCode", generateExpressionsCode(elements, python_version))

\* ------------------------------------------------------------------ slicing
\* (alternative: the magnitude 2^63-1 counts as small)
isSmallNumberConstantInclusive(node) ==
    IF isNumberConstant(getConstant(node))
    THEN \/ LimbsLess(int(getConstant(node)).value.limbs, MaxIndexLimbs, 1)
         \/ int(getConstant(node)).value.limbs = MaxIndexLimbs
    ELSE FALSE

isSmallNumberConstant(node) ==
    IF isNumberConstant(getConstant(node))
    THEN LimbsLess(int(getConstant(node)).value.limbs, MaxIndexLimbs, 1)
    ELSE FALSE

generateSliceRangeBound(bound, absent_code, python_version) ==
    IF isNone(bound) THEN Call(absent_code, <<>>)
    ELSE IF isExpressionConstantRef(bound) /\ isSmallNumberConstant(bound)
         THEN Call("getIndexValueCode", <<int(getConstant(bound))>>)
         ELSE Emit("getIndexCode", <<generateExpressionCode(bound, python_version)>>)

generateSliceRangeIdentifier(lower, upper, python_version) ==
    <<generateSliceRangeBound(lower, "getMinIndexCode", python_version),
      generateSliceRangeBound(upper, "getMaxIndexCode", python_version)>>

generateSliceAccessIdentifiers(sliced, lower, upper, python_version) ==
    <<generateExpressionCode(sliced, python_version)>>
        \o generateSliceRangeIdentifier(lower, upper, python_version)

slicing_available(python_version) == python_version < 300

\* (alternative: the bounds alone decide)
decideSlicingAnyVersion(lower, upper, python_version) ==
    /\ isNone(lower) \/ isIndexable(lower)
    /\ isNone(upper) \/ isIndexable(upper)

decideSlicing(lower, upper, python_version) ==
    /\ slicing_available(python_version)
    /\ isNone(lower) \/ isIndexable(lower)
    /\ isNone(upper) \/ isIndexable(upper)

generateSliceLookupCode(expression, python_version) ==
    LET lower == getLower(expression)
        upper == getUpper(expression)
    IN  IF decideSlicing(lower, upper, python_version)
        THEN Emit("getSliceLookupIndexesCode",
                  generateSliceAccessIdentifiers(getLookupSource(expression),
                                                 lower, upper, python_version))
        ELSE IF slicing_available(python_version)
        THEN Emit("getSliceLookupCode",
                  <<generateExpressionCode(getLookupSource(expression), python_version),
                    generateExpressionCodeAllowNone(lower, python_version),
                    generateExpressionCodeAllowNone(upper, python_version)>>)
        ELSE Emit("getSubscriptLookupCode",
                  <<generateExpressionCode(getLookupSource(expression), python_version),
                    Emit("getSliceObjectCode",
                         <<generateExpressionCodeAllowNone(lower, python_version),
                           generateExpressionCodeAllowNone(upper, python_version),
                           NoIdentifier>>)>>)

\* ------------------------------------------------- generateExpressionCode
\* (alternative: a kind with no branch is given an identifier of its own)
unmatchedExpressionDefault(expression) == Call("getConstantAccess", <<NoneConstant>>)

\* else: assert False, expression
unmatchedExpression(expression) == AssertionError

generateExpressionCode(expression, python_version) ==
    IF ~isExpression(expression) THEN AssertionError
    ELSE IF isExpressionVariableRef(expression)
    THEN IF getVariable(expression) = "None" THEN AssertionError
         ELSE Call("getVariableAccess", <<getVariable(expression)>>)
    ELSE IF isExpressionConstantRef(expression)
    THEN Call("getConstantAccess", <<getConstant(expression)>>)
    ELSE IF expression.kind = "ExpressionMakeTuple"
    THEN generateTupleCreationCode(expression.kids, python_version)
    ELSE IF expression.kind = "ExpressionMakeList"
    THEN generateListCreationCode(expression.kids, python_version)
    ELSE IF expression.kind = "ExpressionMakeSet"
    THEN generateSetCreationCode(expression.kids, python_version)
    ELSE IF expression.kind = "ExpressionMakeDict"
    THEN generateDictionaryCreationCode(expression.kids, python_version)
    ELSE IF expression.kind = "ExpressionSliceLookup"
    THEN generateSliceLookupCode(expression, python_version)
    ELSE IF expression.kind \in OtherDispatchedExpressionKinds
    THEN Emit(expression.kind, generateExpressionsCode(expression.kids, python_version))
    ELSE IF python_version < 300 /\ expression.kind = "ExpressionBuiltinLong"
    THEN Emit(expression.kind, generateExpressionsCode(expression.kids, python_version))
    ELSE unmatchedExpression(expression)

\* The expressions translated.
MaxElements == 2        \* most elements of a literal

PythonVersions == {270, 300, 310}

LiteralElements ==
    {ConstantRef(IntConstant(1)), ConstantRef(Str(<<"a">>)), ConstantRef(ListConstant(<<>>)),
     VariableRef("a")}

DictPairs ==
    {KeyValuePair(k, v) :
        k \in {ConstantRef(IntConstant(1)), VariableRef("a")},
        v \in {ConstantRef(IntConstant(1)), ConstantRef(IntConstant(2)), ConstantRef(ListConstant(<<>>)),
               VariableRef("a")}}

Literals ==
    {MakeSequence(kind, elements) :
        kind \in {"ExpressionMakeTuple", "ExpressionMakeList", "ExpressionMakeSet"},
        elements \in {<<>>} \cup SeqsUpTo(LiteralElements, MaxElements)}
    \cup {MakeSequence("ExpressionMakeDict", pairs) : pairs \in {<<>>} \cup SeqsUpTo(DictPairs, MaxElements)}

\* A small constant is indexable; what isIndexable() answers for the other
\* bounds is left open.
SliceBounds ==
    {Absent,
     Indexable(ConstantRef(IntConstant(0))),
     Indexable(ConstantRef(Number(1, BelowMaxIndexLimbs))),
     ConstantRef(Number(1, MaxIndexLimbs)),
     Indexable(ConstantRef(Number(1, MaxIndexLimbs))),
     Indexable(ConstantRef(Number(-1, MaxIndexLimbs))),
     Indexable(ConstantRef(Float(-1, <<0, 0, 0, 1>>, 5))),
     ConstantRef(Str(<<"a">>)),
     VariableRef("b"),
     Indexable(VariableRef("b"))}

Slices == {SliceLookup(VariableRef("a"), lower, upper) : lower, upper \in SliceBounds}

\* Nodes that no branch serves: a key/value pair, a long under Python 3, a
\* statement sequence handed in as an expression, an unresolved variable reference,
\* alone and below a node that is served.
OtherExpressions ==
    {KeyValuePair(ConstantRef(IntConstant(1)), ConstantRef(IntConstant(2))),
     GNode("ExpressionBuiltinLong", "", <<VariableRef("a")>>),
     GNode("StatementsSequence", "", <<>>),
     VariableRef("None"),
     MakeSequence("ExpressionMakeTuple", <<VariableRef("None")>>),
     GNode("ExpressionBuiltinLen", "", <<VariableRef("a")>>),
     GNode("ExpressionBuiltinLen", "", <<GNode("StatementsSequence", "", <<>>)>>)}

GenExpressions == Literals \cup Slices \cup OtherExpressions

ExpressionCalls ==
    {[op |-> "generateExpressionCode", pc |-> "call", expression |-> e,
      python_version |-> v, result |-> NoIdentifier] :
        e \in GenExpressions, v \in PythonVersions}

CallGenerateExpressionCode ==
    /\ gen.op = "generateExpressionCode"
    /\ gen.pc = "call"
    /\ gen' = [gen EXCEPT !.pc = "return",
                          !.result = generateExpressionCode(gen.expression,
                                                            gen.python_version)]

\* ---------------------------------------------------------- text of code
Whitespace == {" ", "\n"}

RECURSIVE lstrip(_)
lstrip(text) ==
    IF text # <<>> /\ Head(text) \in Whitespace THEN lstrip(Tail(text)) ELSE text

RECURSIVE rstrip(_)
rstrip(text) ==
    IF text # <<>> /\ text[Len(text)] \in Whitespace
    THEN rstrip(SubSeq(text, 1, Len(text) - 1))
    ELSE text

strip(text) == rstrip(lstrip(text))

\* text.split( "\n" ): the lines of a text, one more than it has newlines
RECURSIVE split(_, _, _)
split(text, i, line) ==
    IF i > Len(text) THEN <<line>>
    ELSE IF text[i] = "\n" THEN <<line>> \o split(text, i + 1, <<>>)
    ELSE split(text, i + 1, Append(line, text[i]))

\* "\n".join( lines )
RECURSIVE join(_)
join(lines) ==
    IF lines = <<>> THEN <<>>
    ELSE IF Len(lines) = 1 THEN lines[1]
    ELSE lines[1] \o <<"\n">> \o join(Tail(lines))

\* Generator.indented: every line of the code moved in by four blanks
indented(lines) ==
    join([i \in 1..Len(lines) |-> <<" ", " ", " ", " ">> \o lines[i]])

\* Generator.getLineNumberCode and Generator.getStatementTrace: a line of
\* their own.
getLineNumberCode == <<"l", "\n">>

getStatementTrace == <<"t">>

\* ------------------------------------------------------------- statements
Statement(kind, code, source_ref, kids) ==
    GNode(kind, [code |-> code, source_ref |-> source_ref, local |-> FALSE], kids)

ReraiseLocal(statement) == [statement EXCEPT !.value.local = TRUE]

Sequence(statements) == GNode("StatementsSequence", "", statements)

\* The code of a statement: the emission call made for it, what it was
\* called with, and the text that came back.
StatementCode(call, arguments, text) ==
    [call |-> call, with |-> arguments, text |-> text]

StatementAssertionError == StatementCode("AssertionError", <<>>, <<>>)

\* The codes of a statement sequence: the lines, and for each statement that
\* gave code the indexes of the first and the last line it gave.
Codes(lines, spans) == [status |-> "codes", codes |-> lines, spans |-> spans]

NoCodes == [status |-> "None", codes |-> <<>>, spans |-> <<>>]

CodesAssertionError == [status |-> "AssertionError", codes |-> <<>>, spans |-> <<>>]

EmitStatement(name, identifiers, text) ==
    IF Raised(identifiers) THEN StatementAssertionError
    ELSE StatementCode(name, identifiers, text)

\* node.mayRaiseException( BaseException ): a constant and a temporary
\* variable cannot raise.
mayRaiseException(node) ==
    node.kind \notin {"ExpressionConstantRef", "ExpressionTempVariableRef"}

\* node.isStatementAbortative(): a sequence is as its last statement is.
isStatementAbortative(node) ==
    IF isStatementsSequence(node)
    THEN /\ node.kids # <<>>
         /\ node.kids[Len(node.kids)].kind \in
                {"StatementReturn", "StatementRaiseException",
                 "StatementContinueLoop", "StatementBreakLoop"}
    ELSE node.kind \in {"StatementReturn", "StatementRaiseException",
                        "StatementContinueLoop", "StatementBreakLoop"}

getBlockTry(statement) == statement.kids[1]

getBlockNoRaise(statement) ==
    IF isStatementsSequence(statement.kids[Len(statement.kids)]) /\ Len(statement.kids) > 1
    THEN statement.kids[Len(statement.kids)]
    ELSE Absent

getTargetVariableRef(statement) == statement.kids[1]
getAssignSource(statement) == statement.kids[2]

\* ------------------------------------------------------ generateRaiseCode
\* (alternative: the traceback maker is passed with every raise)
tracebackMakerAlways(exception_tb) == Call("getTracebackMakingIdentifier", <<>>)

\* exception_tb_maker of the raise emissions
tracebackMaker(exception_tb) ==
    IF isNone(exception_tb) THEN Call("getTracebackMakingIdentifier", <<>>)
    ELSE NoIdentifier

generateRaiseCode(statement, python_version) ==
    LET exception_type == statement.kids[1]
        exception_value == statement.kids[2]
        exception_tb == statement.kids[3]
    IN  IF isNone(exception_type)
        THEN StatementCode("getReRaiseExceptionCode", <<statement.value.local>>,
                           statement.value.code)
        ELSE IF isNone(exception_value)
        THEN EmitStatement("getRaiseExceptionCode",
                           <<generateExpressionCode(exception_type, python_version),
                             NoIdentifier, NoIdentifier, tracebackMaker(Absent)>>,
                           statement.value.code)
        ELSE IF isNone(exception_tb)
        THEN EmitStatement("getRaiseExceptionCode",
                           <<generateExpressionCode(exception_type, python_version),
                             generateExpressionCode(exception_value, python_version),
                             NoIdentifier, tracebackMaker(exception_tb)>>,
                           statement.value.code)
        ELSE EmitStatement("getRaiseExceptionCode",
                           <<generateExpressionCode(exception_type, python_version),
                             generateExpressionCode(exception_value, python_version),
                             generateExpressionCode(exception_tb, python_version),
                             tracebackMaker(exception_tb)>>,
                           statement.value.code)

\* --------------------------------------------------- generateTryExceptCode
\* The tried block of a try statement may raise (the function asserts it), or
\* the optimizer would have removed the statement.
RECURSIVE generateStatementSequenceCode(_, _, _, _)

\* (alternative: any single handler of a tried next() is taken for the
\* compact emission)
isCompactTryExceptAnyHandler(statement) ==
    LET tried_statements == getStatements(getBlockTry(statement))
    IN  /\ Len(tried_statements) = 1
        /\ tried_statements[1].kind = "StatementAssignmentVariable"
        /\ getAssignSource(tried_statements[1]).kind = "ExpressionBuiltinNext1"
        /\ Len(getExceptionHandlers(statement)) = 1

\* The nested ifs that lead to the compact emission.
isCompactTryExcept(statement) ==
    LET tried_statements == getStatements(getBlockTry(statement))
        handlers == getExceptionHandlers(statement)
    IN  /\ Len(tried_statements) = 1
        /\ tried_statements[1].kind = "StatementAssignmentVariable"
        /\ getAssignSource(tried_statements[1]).kind = "ExpressionBuiltinNext1"
        /\ ~mayRaiseException(getAssignSource(tried_statements[1]).kids[1])
        /\ Len(handlers) = 1
        /\ Len(getExceptionTypes(handlers[1]).kids) = 1
        /\ isExpressionBuiltinExceptionRef(getExceptionTypes(handlers[1]).kids[1])
        /\ getExceptionName(getExceptionTypes(handlers[1]).kids[1]) = "StopIteration"
        /\ isStatementAbortative(getExceptionBranch(handlers[1]))

\* The text of the compact emission: the template with the handler code and
\* the assignment code moved in.
compactTryExceptText(handler_codes, assignment_code) ==
    join(<<<<"P">>, <<>>, <<"i", "f">>, <<"{">>,
           indented(handler_codes), <<"}">>,
           indented(split(assignment_code, 1, <<>>))>>)

\* (alternative: every handler is flagged as the first)
firstHandlerAlways(count) == TRUE

\* first_handler = count == 0
firstHandler(count) == count = 0

\* Generator.getTryExceptHandlerCode of one handler
getTryExceptHandlerCode(exception_identifiers, handler_code, first_handler) ==
    IF Raised(exception_identifiers) \/ handler_code = CodesAssertionError
    THEN AssertionError
    ELSE Call("getTryExceptHandlerCode",
              <<exception_identifiers, handler_code, first_handler>>)

RECURSIVE generateHandlerCodes(_, _, _, _)
generateHandlerCodes(handlers, i, python_version, trace) ==
    IF i > Len(handlers) THEN <<>>
    ELSE <<getTryExceptHandlerCode(
               generateExpressionsCode(getExceptionTypes(handlers[i]).kids,
                                       python_version),
               generateStatementSequenceCode(getExceptionBranch(handlers[i]),
                                             python_version, trace, TRUE),
               firstHandler(i - 1))>>
         \o generateHandlerCodes(handlers, i + 1, python_version, trace)

\* The compact emission, of the handler code and the source identifier.
getIteratorNextCode(tried_statement, handler_codes, source_identifier) ==
    IF handler_codes = CodesAssertionError \/ source_identifier = AssertionError
    THEN StatementAssertionError
    ELSE StatementCode("ITERATOR_NEXT",
                       <<source_identifier, handler_codes,
                         Call("getVariableAssignmentCode",
                              <<getVariable(getTargetVariableRef(tried_statement))>>)>>,
                       compactTryExceptText(handler_codes.codes,
                                            tried_statement.value.code))

\* Generator.getTryExceptCode of the three codes
getTryExceptCode(statement, code_tried, handler_codes, else_code) ==
    IF \/ Raised(handler_codes)
       \/ code_tried = CodesAssertionError
       \/ else_code = CodesAssertionError
    THEN StatementAssertionError
    ELSE StatementCode("getTryExceptCode", <<code_tried, handler_codes, else_code>>,
                       statement.value.code)

generateTryExceptCode(statement, python_version, trace) ==
    IF isCompactTryExcept(statement)
    THEN getIteratorNextCode(
             getStatements(getBlockTry(statement))[1],
             generateStatementSequenceCode(
                 getExceptionBranch(getExceptionHandlers(statement)[1]),
                 python_version, trace, TRUE),
             generateExpressionCode(
                 getAssignSource(getStatements(getBlockTry(statement))[1]).kids[1],
                 python_version))
    ELSE getTryExceptCode(
             statement,
             generateStatementSequenceCode(getBlockTry(statement),
                                           python_version, trace, FALSE),
             generateHandlerCodes(getExceptionHandlers(statement), 1,
                                  python_version, trace),
             generateStatementSequenceCode(getBlockNoRaise(statement),
                                           python_version, trace, TRUE))

\* ------------------------------------------------ _generateStatementCode
\* (alternative: a kind with no branch yields no code)
unmatchedStatementDefault(statement) == StatementCode("", <<>>, <<>>)

\* else: assert False, statement.__class__
unmatchedStatement(statement) == StatementAssertionError

\* (alternative: the code is never found padded)
codeIsPaddedNever(code) == FALSE

\* code != code.strip()
codeIsPadded(code) == code # strip(code)

dispatchStatementCode(statement, python_version, trace) ==
    IF ~isStatement(statement) THEN StatementAssertionError
    ELSE IF isStatementTryExcept(statement)
    THEN generateTryExceptCode(statement, python_version, trace)
    ELSE IF isStatementRaiseException(statement)
    THEN generateRaiseCode(statement, python_version)
    ELSE IF statement.kind = "StatementDeclareGlobal"
    THEN StatementCode("", <<>>, <<>>)
    ELSE IF statement.kind \in OtherDispatchedStatementKinds
    THEN EmitStatement(statement.kind,
                       generateExpressionsCode(statement.kids, python_version),
                       statement.value.code)
    ELSE unmatchedStatement(statement)

\* assert code == code.strip()
assertStripped(code) ==
    IF code = StatementAssertionError THEN StatementAssertionError
    ELSE IF codeIsPadded(code.text) THEN StatementAssertionError
    ELSE code

generateStatementCode(statement, python_version, trace) ==
    assertStripped(dispatchStatementCode(statement, python_version, trace))

\* ------------------------------------------ generateStatementSequenceCode
\* The loop over the statements; last_ref is 0 for None.
RECURSIVE sequenceLoop(_, _, _, _, _, _, _)

\* (alternative: every statement gets the line number code)
statementCodesAlwaysMarked(code, source_ref, last_ref) ==
    split(getLineNumberCode \o code.text, 1, <<>>)

\* The lines of one statement, with the line number code before them when
\* the source reference changed.
statementCodes(code, source_ref, last_ref) ==
    split(IF source_ref # last_ref THEN getLineNumberCode \o code.text ELSE code.text,
          1, <<>>)

\* The loop after the lines of statement i were split.
extendCodes(statements, i, traced, spans, statement_codes, python_version, trace) ==
    IF \/ strip(statement_codes[1]) = <<>>
       \/ strip(statement_codes[Len(statement_codes)]) = <<>>
    THEN CodesAssertionError
    ELSE sequenceLoop(statements, i + 1, traced \o statement_codes,
                      Append(spans, <<Len(traced) + 1,
                                      Len(traced) + Len(statement_codes)>>),
                      statements[i].value.source_ref, python_version, trace)

\* The body of the loop, after the code of statement i was generated.
sequenceStep(statements, i, traced, spans, last_ref, python_version, trace, code) ==
    IF code = StatementAssertionError THEN CodesAssertionError
    ELSE IF code.text = <<>>
    THEN sequenceLoop(statements, i + 1, traced, spans, last_ref, python_version, trace)
    ELSE extendCodes(statements, i, traced, spans,
                     statementCodes(code, statements[i].value.source_ref, last_ref),
                     python_version, trace)

sequenceLoop(statements, i, codes, spans, last_ref, python_version, trace) ==
    IF i > Len(statements) THEN Codes(codes, spans)
    ELSE sequenceStep(statements, i,
                      IF trace THEN Append(codes, getStatementTrace) ELSE codes,
                      spans, last_ref, python_version, trace,
                      generateStatementCode(statements[i], python_version, trace))

generateStatementSequenceCode(statement_sequence, python_version, trace, allow_none) ==
    IF allow_none /\ isNone(statement_sequence) THEN NoCodes
    ELSE IF ~isStatementsSequence(statement_sequence) THEN CodesAssertionError
    ELSE sequenceLoop(getStatements(statement_sequence), 1, <<>>, <<>>, 0,
                      python_version, trace)

\* The statements translated.
MaxCodeLen == 3         \* longest code text the emission layer returns
MaxHandlers == 2        \* most handlers of a try statement

CodeTexts == TextsUpTo({"x", " ", "\n"}, MaxCodeLen)

Plain(kind, text, source_ref) == Statement(kind, text, source_ref, <<VariableRef("a")>>)

TextStatements == {Plain("StatementExpressionOnly", text, 1) : text \in CodeTexts}

DeclareGlobal == Statement("StatementDeclareGlobal", <<>>, 1, <<>>)

\* Nodes that no branch serves: a handler, an expression handed in as a
\* statement, and an unresolved variable reference below a served statement.
OtherStatements ==
    {Statement("StatementExceptHandler", <<"x">>, 1, <<>>),
     ConstantRef(IntConstant(1)),
     Statement("StatementReturn", <<"x">>, 1, <<VariableRef("None")>>)}

OptionalExpressions == {Absent, VariableRef("a")}

RaiseStatements ==
    {Statement("StatementRaiseException", <<"x">>, 1, <<type, value, tb>>) :
        type, value, tb \in OptionalExpressions}
    \cup {ReraiseLocal(Statement("StatementRaiseException", <<"x">>, 1,
                                 <<Absent, Absent, Absent>>)),
          Statement("StatementRaiseException", <<"x">>, 1,
                    <<VariableRef("None"), Absent, Absent>>)}

ExceptionRef(name) == Named(GNode("ExpressionBuiltinExceptionRef", "", <<>>), name)

NextOf(operand) == GNode("ExpressionBuiltinNext1", "", <<operand>>)

AssignVariable(source, text) ==
    Statement("StatementAssignmentVariable", text, 1, <<VariableRef("v"), source>>)

GenTriedLists ==
    {<<AssignVariable(NextOf(GNode("ExpressionTempVariableRef", "t", <<>>)), <<"x">>)>>,
     <<AssignVariable(NextOf(VariableRef("a")), <<"x">>)>>,
     <<AssignVariable(VariableRef("a"), <<"x">>)>>,
     <<Plain("StatementExpressionOnly", <<"x">>, 1)>>,
     <<AssignVariable(NextOf(GNode("ExpressionTempVariableRef", "t", <<>>)), <<"x">>),
       AssignVariable(NextOf(GNode("ExpressionTempVariableRef", "t", <<>>)), <<"x">>)>>}

GenTypeLists ==
    {<<ExceptionRef("StopIteration")>>, <<ExceptionRef("ValueError")>>,
     <<VariableRef("e")>>, <<ExceptionRef("StopIteration"), ExceptionRef("ValueError")>>,
     <<>>}

GenBranches ==
    {Sequence(<<Plain("StatementReturn", <<"x">>, 1)>>),
     Sequence(<<Plain("StatementExpressionOnly", <<"x">>, 1)>>)}

GenHandler(types, branch) == GNode("StatementExceptHandler", "", types \o <<branch>>)

GenHandlers == {GenHandler(types, branch) : types \in GenTypeLists, branch \in GenBranches}

GenTryExcept(tried, handlers, no_raise) ==
    Statement("StatementTryExcept", <<"x">>, 1,
              <<Sequence(tried)>> \o handlers \o no_raise)

GenTryStatements ==
    {GenTryExcept(tried, handlers, no_raise) :
        tried \in GenTriedLists,
        handlers \in SeqsUpTo(GenHandlers, MaxHandlers),
        no_raise \in {<<>>, <<Sequence(<<Plain("StatementExpressionOnly", <<"x">>, 1)>>)>>}}

GenStatements == TextStatements \cup {DeclareGlobal} \cup OtherStatements
                     \cup RaiseStatements \cup GenTryStatements

StatementCalls ==
    {[op |-> "generateStatementCode", pc |-> "call", statement |-> s,
      python_version |-> 270, trace |-> FALSE, result |-> StatementCode("", <<>>, <<>>)] :
        s \in GenStatements}

CallGenerateStatementCode ==
    /\ gen.op = "generateStatementCode"
    /\ gen.pc = "call"
    /\ gen' = [gen EXCEPT !.pc = "return",
                          !.result = generateStatementCode(gen.statement,
                                                           gen.python_version, gen.trace)]

\* The statement sequences translated: a statement alone, and before or
\* after another one.
CompactTry(branch_text, assignment_text) ==
    GenTryExcept(<<AssignVariable(NextOf(GNode("ExpressionTempVariableRef", "t", <<>>)),
                                  assignment_text)>>,
                 <<GenHandler(<<ExceptionRef("StopIteration")>>,
                              Sequence(<<Plain("StatementReturn", branch_text, 1)>>))>>,
                 <<>>)

CompactTries ==
    {CompactTry(branch_text, assignment_text) :
        branch_text \in {<<"x">>, <<"x", "\n", "x">>}, assignment_text \in {<<"x">>, <<>>}}

Companions ==
    {Plain("StatementExpressionOnly", <<"x">>, 1),
     Plain("StatementExpressionOnly", <<"x">>, 2),
     DeclareGlobal,
     CompactTry(<<"x">>, <<"x">>)}

SequenceStatements == TextStatements \cup {DeclareGlobal} \cup CompactTries

\* Statements of two source references, with and without code.
MaxSequenceLen == 3     \* most statements of a sequence of these

MarkerStatements ==
    {Plain("StatementExpressionOnly", <<"x">>, 1),
     Plain("StatementExpressionOnly", <<"x">>, 2),
     Statement("StatementDeclareGlobal", <<>>, 1, <<>>),
     Statement("StatementDeclareGlobal", <<>>, 2, <<>>)}

MarkerSequences == {Sequence(s) : s \in SeqsUpTo(MarkerStatements, MaxSequenceLen)}

StatementSequences ==
    {Sequence(<<>>), Absent, Plain("StatementExpressionOnly", <<"x">>, 1)}
    \cup MarkerSequences
    \cup {Sequence(<<s>>) : s \in SequenceStatements}
    \cup {Sequence(<<c, s>>) : c \in Companions, s \in SequenceStatements}
    \cup {Sequence(<<s, c>>) : c \in Companions, s \in SequenceStatements}

SequenceCalls ==
    {[op |-> "generateStatementSequenceCode", pc |-> "call", statement_sequence |-> s,
      python_version |-> 270, trace |-> t, allow_none |-> a, result |-> NoCodes] :
        s \in StatementSequences, t \in BOOLEAN, a \in BOOLEAN} \
    {[op |-> "generateStatementSequenceCode", pc |-> "call",
      statement_sequence |-> Absent, python_version |-> 270, trace |-> t,
      allow_none |-> FALSE, result |-> NoCodes] : t \in BOOLEAN}

CallGenerateStatementSequenceCode ==
    /\ gen.op = "generateStatementSequenceCode"
    /\ gen.pc = "call"
    /\ gen' = [gen EXCEPT !.pc = "return",
                          !.result = generateStatementSequenceCode(
                                         gen.statement_sequence, gen.python_version,
                                         gen.trace, gen.allow_none)]

\* ------------------------------------------------- generateConditionCode
\* bool( constant )
truth(constant) ==
    CASE constant.type = "int" -> \E i \in 1..Len(constant.value.limbs) :
                                      constant.value.limbs[i] # 0
      [] constant.type = "bool" -> constant.value
      [] constant.type = "NoneType" -> FALSE
      [] constant.type \in {"str", "tuple", "list", "dict"} -> constant.value # <<>>

\* (alternative: the requested inversion is not applied to a constant)
invertedValueIgnored(value, inverted) == value

\* if inverted: value = not value
invertedValue(value, inverted) == IF inverted THEN ~value ELSE value

\* (alternative: the requested inversion is not applied to a combined result)
invertedResultIgnored(result, inverted) == result

\* if inverted: result = Generator.getConditionNotBoolCode( result )
invertedResult(result, inverted) ==
    IF inverted THEN Emit("getConditionNotBoolCode", <<result>>) ELSE result

\* (alternative: the negation is emitted whether or not inversion is asked)
notResultAlwaysNegated(operand_code, inverted) ==
    Emit("getConditionNotBoolCode", <<operand_code>>)

\* The branch of a logical NOT, given the translation of its operand.
notResult(operand_code, inverted) ==
    IF ~inverted THEN Emit("getConditionNotBoolCode", <<operand_code>>)
    ELSE operand_code

generateComparisonExpressionBoolCode(comparison_expression, python_version) ==
    Emit("getComparisonExpressionBoolCode",
         <<generateExpressionCode(comparison_expression.kids[1], python_version),
           generateExpressionCode(comparison_expression.kids[2], python_version)>>)

RECURSIVE generateConditionCode(_, _, _, _)
generateConditionCode(condition, inverted, allow_none, python_version) ==
    IF isNone(condition) /\ allow_none
    THEN IF inverted THEN AssertionError ELSE Call("getTrueExpressionCode", <<>>)
    ELSE IF isExpressionConstantRef(condition)
    THEN IF invertedValue(truth(getConstant(condition)), inverted)
         THEN Call("getTrueExpressionCode", <<>>)
         ELSE Call("getFalseExpressionCode", <<>>)
    ELSE IF condition.kind = "ExpressionComparison"
    THEN invertedResult(generateComparisonExpressionBoolCode(condition, python_version),
                        inverted)
    ELSE IF condition.kind \in {"ExpressionBoolOR", "ExpressionBoolAND"}
    THEN LET parts == [i \in 1..Len(condition.kids) |->
                          generateConditionCode(condition.kids[i], FALSE, FALSE,
                                                python_version)]
         IN  invertedResult(Emit(IF condition.kind = "ExpressionBoolOR"
                                 THEN "getConditionOrCode"
                                 ELSE "getConditionAndCode", parts),
                            inverted)
    ELSE IF condition.kind = "ExpressionOperationNOT"
    THEN notResult(generateConditionCode(condition.kids[1], FALSE, FALSE, python_version),
                   inverted)
    ELSE Emit(IF inverted THEN "getConditionCheckFalseCode"
              ELSE "getConditionCheckTrueCode",
              <<generateExpressionCode(condition, python_version)>>)

\* The conditions translated.
MaxConditionDepth == 2  \* deepest nesting of NOT, AND and OR

ConditionConstants ==
    {IntConstant(0), IntConstant(1), IntConstant(-1), Number(1, MaxIndexLimbs),
     Str(<<>>), Str(<<"a">>), Bool(TRUE), Bool(FALSE), NoneConstant,
     TupleConstant(<<>>), TupleConstant(<<IntConstant(0)>>), ListConstant(<<>>)}

Comparison(left, right) == GNode("ExpressionComparison", "", <<left, right>>)

Not(operand) == GNode("ExpressionOperationNOT", "", <<operand>>)

ConditionAtoms ==
    {ConstantRef(IntConstant(0)), VariableRef("a"),
     Comparison(VariableRef("a"), VariableRef("b"))}

RECURSIVE ConditionsOfDepth(_)
ConditionsOfDepth(depth) ==
    IF depth = 0 THEN ConditionAtoms
    ELSE LET inner == ConditionsOfDepth(depth - 1)
         IN  inner \cup {Not(c) : c \in inner}
                   \cup {GNode(kind, "", <<c, VariableRef("a")>>) :
                            kind \in {"ExpressionBoolOR", "ExpressionBoolAND"},
                            c \in inner}

Conditions ==
    ConditionsOfDepth(MaxConditionDepth) \cup {ConstantRef(c) : c \in ConditionConstants}

ConditionCalls ==
    {[op |-> "generateConditionCode", pc |-> "call", condition |-> c, inverted |-> i,
      allow_none |-> FALSE, python_version |-> 270, result |-> NoIdentifier] :
        c \in Conditions, i \in BOOLEAN}
    \cup {[op |-> "generateConditionCode", pc |-> "call", condition |-> Absent,
           inverted |-> i, allow_none |-> TRUE, python_version |-> 270,
           result |-> NoIdentifier] : i \in BOOLEAN}

CallGenerateConditionCode ==
    /\ gen.op = "generateConditionCode"
    /\ gen.pc = "call"
    /\ gen' = [gen EXCEPT !.pc = "return",
                          !.result = generateConditionCode(gen.condition, gen.inverted,
                                                           gen.allow_none,
                                                           gen.python_version)]

\* ------------------------------------------- function and class bodies
\* A body expression.  Its kids are the body expressions that the statements
\* of the body hold, in the order the statements reach them; its value is
\* [defaults, variables, bases]: the default expressions and the variables
\* of the defaulted parameters of a function, the bases of a class.
Body(kind, code_name, nested) ==
    Named(GNode(kind, [defaults |-> <<>>, variables |-> <<>>, bases |-> <<>>], nested),
          code_name)

Defaulted(body, variables, defaults) ==
    [body EXCEPT !.value.defaults = defaults, !.value.variables = variables]

Based(body, bases) == [body EXCEPT !.value.bases = bases]

getCodeName(body) == body.name

\* An identifier that an expression was given in a context.
InContext(context, identifier) ==
    IF identifier = AssertionError THEN AssertionError
    ELSE Call("generateExpressionCode", <<context, identifier>>)

\* Contexts are numbered as they are created; 0 is the context of the
\* caller of the outermost body.
\* (alternative: the context of a function body has the outermost parent)
PythonFunctionContextOrphan(parent, function) ==
    [kind |-> "function", parent |-> 0, body |-> function]

PythonFunctionContext(parent, function) ==
    [kind |-> "function", parent |-> parent, body |-> function]

PythonClassContext(parent, class_def) ==
    [kind |-> "class", parent |-> parent, body |-> class_def]

\* -------------------------------------------- _generateDefaultIdentifiers
DefaultsAssertionError == [status |-> "AssertionError", access |-> <<>>, values |-> <<>>]

DefaultIdentifiers(access, values) ==
    IF Raised(access) \/ Raised(values) THEN DefaultsAssertionError
    ELSE [status |-> "identifiers", access |-> access, values |-> values]

\* (alternative: every constant default is translated directly)
isInlinedDefaultAnyConstant(default_parameter_value) ==
    isExpressionConstantRef(default_parameter_value)

\* default_parameter_value.isExpressionConstantRef() and not .isMutable()
isInlinedDefault(default_parameter_value) ==
    /\ isExpressionConstantRef(default_parameter_value)
    /\ ~isMutable(default_parameter_value)

RECURSIVE defaultsLoop(_, _, _, _, _, _, _, _)
defaultsLoop(variables, default_expressions, i, access, values, sub_context, context, python_version) ==
    IF i > Len(default_expressions) THEN DefaultIdentifiers(access, values)
    ELSE IF isInlinedDefault(default_expressions[i])
    THEN defaultsLoop(variables, default_expressions, i + 1,
                      Append(access,
                             InContext(sub_context,
                                       generateExpressionCode(default_expressions[i],
                                                              python_version))),
                      values, sub_context, context, python_version)
    ELSE defaultsLoop(variables, default_expressions, i + 1,
                      Append(access, Call("getDefaultValueAccess", <<variables[i]>>)),
                      Append(values,
                             InContext(context,
                                       generateExpressionCode(default_expressions[i],
                                                              python_version))),
                      sub_context, context, python_version)

generateDefaultIdentifiers(variables, default_expressions, sub_context, context, python_version) ==
    IF Len(default_expressions) # Len(variables) THEN DefaultsAssertionError
    ELSE defaultsLoop(variables, default_expressions, 1, <<>>, <<>>, sub_context,
                      context, python_version)

\* The defaults translated.
MaxDefaults == 2        \* most defaulted parameters of a function

DefaultExpressions ==
    {ConstantRef(IntConstant(1)), ConstantRef(ListConstant(<<>>)), VariableRef("a")}

DefaultLists == {<<>>} \cup SeqsUpTo(DefaultExpressions, MaxDefaults)

DefaultVariables(n) == [i \in 1..n |-> IF i % 2 = 1 THEN "p" ELSE "q"]

DefaultCalls ==
    {[op |-> "generateDefaultIdentifiers", pc |-> "call",
      variables |-> DefaultVariables(n), default_expressions |-> d,
      sub_context |-> 1, context |-> 0, python_version |-> 270,
      result |-> DefaultsAssertionError] :
        d \in DefaultLists \cup {<<VariableRef("None")>>}, n \in 0..MaxDefaults}

CallGenerateDefaultIdentifiers ==
    /\ gen.op = "generateDefaultIdentifiers"
    /\ gen.pc = "call"
    /\ gen' = [gen EXCEPT !.pc = "return",
                          !.result = generateDefaultIdentifiers(
                                         gen.variables, gen.default_expressions,
                                         gen.sub_context, gen.context,
                                         gen.python_version)]

\* -------------------------- generateFunctionBodyCode, generateClassBodyCode
\* A body being translated: where it is in the outermost body, the context
\* it was called with, the context made for it, the next of its nested
\* bodies to translate, and the codes its statements gave so far.
Frame(path, context, function_context) ==
    [path |-> path, context |-> context, function_context |-> function_context,
     next |-> 1, codes |-> <<>>]

Top == gen.stack[Len(gen.stack)]

TopBody == NodeAt(gen.expression, Top.path)

\* The translation of a body starts: its context is created.
childContext(body, context, path) ==
    IF isExpressionClassBody(body) THEN PythonClassContext(context, path)
    ELSE PythonFunctionContext(context, path)

raiseAssertionError ==
    [gen EXCEPT !.pc = "return", !.stack = <<>>, !.result = AssertionError]

\* The bases of a class are translated before its context is created.
basesRaise(body, python_version) ==
    /\ isExpressionClassBody(body)
    /\ generateTupleCreationCode(body.value.bases, python_version) = AssertionError

enterBody(path, context) ==
    IF basesRaise(NodeAt(gen.expression, path), gen.python_version)
    THEN raiseAssertionError
    ELSE [gen EXCEPT !.pc = "body",
                     !.contexts = Append(@, childContext(NodeAt(gen.expression, path),
                                                         context, path)),
                     !.stack = Append(@, Frame(path, context, Len(gen.contexts) + 1))]

functionCreationIdentifier(body, defaults) ==
    Call("getFunctionCreationCode", <<getCodeName(body), defaults.values>>)

classCreationIdentifier(body, bases_identifier) ==
    Emit("getClassCreationCode",
         <<bases_identifier, Call("getClassDictCreationCode", <<getCodeName(body)>>)>>)

\* context.addFunctionCodes( code_name, function_decl, function_code )
addFunctionCodes(frame, body, defaults) ==
    [context |-> frame.context, body |-> frame.path, code_name |-> getCodeName(body),
     decl |-> Call("getFunctionDecl", <<getCodeName(body), defaults.access>>),
     code |-> Call("getFunctionCode",
                   <<getCodeName(body), frame.function_context, defaults.access,
                     frame.codes>>)]

\* context.addClassCodes( code_name, class_decl, class_code )
addClassCodes(frame, body) ==
    [context |-> frame.context, body |-> frame.path, code_name |-> getCodeName(body),
     decl |-> Call("getClassDecl", <<getCodeName(body)>>),
     code |-> Call("getClassCode",
                   <<getCodeName(body), frame.function_context, frame.codes>>)]

\* The body returned identifier to the statements of the body around it,
\* or to the caller.
returnIdentifier(registered, identifier) ==
    IF Len(gen.stack) = 1
    THEN [gen EXCEPT !.pc = "return", !.stack = <<>>, !.registered = registered,
                     !.result = identifier]
    ELSE [gen EXCEPT !.stack = [i \in 1..(Len(gen.stack) - 1) |->
                                   IF i = Len(gen.stack) - 1
                                   THEN [gen.stack[i] EXCEPT
                                            !.next = @ + 1,
                                            !.codes = Append(@, identifier)]
                                   ELSE gen.stack[i]],
                     !.registered = registered]

completeFunctionBody(frame, body, defaults) ==
    IF defaults = DefaultsAssertionError THEN raiseAssertionError
    ELSE returnIdentifier(Append(gen.registered, addFunctionCodes(frame, body, defaults)),
                          functionCreationIdentifier(body, defaults))

completeClassBody(frame, body, identifier) ==
    IF identifier = AssertionError THEN raiseAssertionError
    ELSE returnIdentifier(Append(gen.registered, addClassCodes(frame, body)),
                          identifier)

\* generateExpressionCode reaches a body expression.
CallGenerateBodyCode ==
    /\ gen.op = "generateBodyCode"
    /\ gen.pc = "call"
    /\ gen' = enterBody(<<>>, 0)

\* The statements of the body reach a nested body expression; it is
\* translated in the context of the body.
TranslateNestedBody ==
    /\ gen.op = "generateBodyCode"
    /\ gen.pc = "body"
    /\ Top.next <= Len(TopBody.kids)
    /\ gen' = enterBody(Append(Top.path, Top.next), Top.function_context)

\* The statements of the body are translated: the rest of
\* generateFunctionBodyCode or generateClassBodyCode.
CompleteBody ==
    /\ gen.op = "generateBodyCode"
    /\ gen.pc = "body"
    /\ Top.next > Len(TopBody.kids)
    /\ gen' = IF isExpressionClassBody(TopBody)
              THEN completeClassBody(
                       Top, TopBody,
                       classCreationIdentifier(
                           TopBody,
                           generateTupleCreationCode(TopBody.value.bases,
                                                     gen.python_version)))
              ELSE completeFunctionBody(
                       Top, TopBody,
                       generateDefaultIdentifiers(
                           TopBody.value.variables, TopBody.value.defaults,
                           Top.function_context, Top.context, gen.python_version))

\* The bodies translated.
MaxBodyDepth == 3       \* deepest nesting of bodies

BodyKinds == {"ExpressionFunctionBody", "ExpressionClassBody"}

InnerFunction == Body("ExpressionFunctionBody", "g", <<>>)

RECURSIVE BodiesOfDepth(_)
BodiesOfDepth(depth) ==
    IF depth = 1 THEN {Body(kind, "f", <<>>) : kind \in BodyKinds}
    ELSE BodiesOfDepth(depth - 1)
         \cup {Body(kind, "f", nested) :
                  kind \in BodyKinds,
                  nested \in UNION {{<<body>>, <<body, InnerFunction>>,
                                     <<InnerFunction, body>>} :
                                        body \in BodiesOfDepth(depth - 1)}}

DefaultedBodies ==
    {Defaulted(Body("ExpressionFunctionBody", "f", <<InnerFunction>>),
               DefaultVariables(Len(defaults)), defaults) : defaults \in DefaultLists}
    \cup {Defaulted(Body("ExpressionFunctionBody", "f", <<>>), <<"p">>,
                    <<VariableRef("None")>>),
          Body("ExpressionFunctionBody", "f",
               <<Defaulted(InnerFunction, <<"p">>, <<VariableRef("a")>>)>>)}

BasedBodies ==
    {Based(Body("ExpressionClassBody", "f", <<InnerFunction>>), bases) :
        bases \in {<<VariableRef("a")>>, <<ConstantRef(IntConstant(1))>>,
                   <<VariableRef("None")>>}}

BodyExpressions == BodiesOfDepth(MaxBodyDepth) \cup DefaultedBodies \cup BasedBodies

BodyCalls ==
    {[op |-> "generateBodyCode", pc |-> "call", expression |-> body,
      python_version |-> 270, stack |-> <<>>, contexts |-> <<>>, registered |-> <<>>,
      result |-> NoIdentifier] : body \in BodyExpressions}

\* ------------------------- generateAssignmentSliceCode, generateDelSliceCode
generateAssignmentSliceCode(lookup_source, lower, upper, value, python_version) ==
    IF decideSlicing(lower, upper, python_version)
    THEN Emit("getSliceAssignmentIndexesCode",
              generateSliceAccessIdentifiers(lookup_source, lower, upper, python_version)
                  \o <<value>>)
    ELSE IF slicing_available(python_version)
    THEN Emit("getSliceAssignmentCode",
              <<generateExpressionCode(lookup_source, python_version),
                generateExpressionCodeAllowNone(lower, python_version),
                generateExpressionCodeAllowNone(upper, python_version),
                value>>)
    ELSE Emit("getSubscriptAssignmentCode",
              <<generateExpressionCode(lookup_source, python_version),
                Emit("getSliceObjectCode",
                     <<generateExpressionCodeAllowNone(lower, python_version),
                       generateExpressionCodeAllowNone(upper, python_version),
                       NoIdentifier>>),
                value>>)

\* (alternative: the deletion makes the native slice call where the lookup
\* and the assignment make it)
generateDelSliceCodeThreeWay(lookup_source, lower, upper, python_version) ==
    IF decideSlicing(lower, upper, python_version)
    THEN Emit("getSliceDelCode",
              generateSliceAccessIdentifiers(lookup_source, lower, upper, python_version))
    ELSE IF slicing_available(python_version)
    THEN Emit("getSliceDelNativeCode",
              <<generateExpressionCode(lookup_source, python_version),
                generateExpressionCodeAllowNone(lower, python_version),
                generateExpressionCodeAllowNone(upper, python_version)>>)
    ELSE Emit("getSubscriptDelCode",
              <<generateExpressionCode(lookup_source, python_version),
                Emit("getSliceObjectCode",
                     <<generateExpressionCodeAllowNone(lower, python_version),
                       generateExpressionCodeAllowNone(upper, python_version),
                       NoIdentifier>>)>>)

generateDelSliceCode(lookup_source, lower, upper, python_version) ==
    IF decideSlicing(lower, upper, python_version)
    THEN Emit("getSliceDelCode",
              generateSliceAccessIdentifiers(lookup_source, lower, upper, python_version))
    ELSE Emit("getSubscriptDelCode",
              <<generateExpressionCode(lookup_source, python_version),
                Emit("getSliceObjectCode",
                     <<generateExpressionCodeAllowNone(lower, python_version),
                       generateExpressionCodeAllowNone(upper, python_version),
                       NoIdentifier>>)>>)

\* The slice assignments and deletions translated: of the slices looked up.
SliceStatementCalls ==
    {[op |-> op, pc |-> "call", lookup_source |-> VariableRef("a"), lower |-> lower,
      upper |-> upper, python_version |-> v, result |-> NoIdentifier] :
        op \in {"generateAssignmentSliceCode", "generateDelSliceCode"},
        lower \in SliceBounds, upper \in SliceBounds, v \in PythonVersions}

AssignedValue == Call("getVariableAccess", <<"v">>)

CallGenerateAssignmentSliceCode ==
    /\ gen.op = "generateAssignmentSliceCode"
    /\ gen.pc = "call"
    /\ gen' = [gen EXCEPT !.pc = "return",
                          !.result = generateAssignmentSliceCode(
                                         gen.lookup_source, gen.lower, gen.upper,
                                         AssignedValue, gen.python_version)]

CallGenerateDelSliceCode ==
    /\ gen.op = "generateDelSliceCode"
    /\ gen.pc = "call"
    /\ gen' = [gen EXCEPT !.pc = "return",
                          !.result = generateDelSliceCode(
                                         gen.lookup_source, gen.lower, gen.upper,
                                         gen.python_version)]

\* ------------------------------------------- the code generation calls
\* The optimizer state is not touched by the code generation.
OptimizerVars ==
    <<tree, pos, pc, signals, restarts, run, tree0, before, visited, rule, queries>>

GenInit ==
    /\ tree = Module(StatementsSequence(<<>>))
    /\ pos = 1
    /\ pc = "done"
    /\ signals = <<>>
    /\ restarts = 0
    /\ run = 1
    /\ tree0 = tree
    /\ before = tree
    /\ visited = <<>>
    /\ rule = "start"
    /\ queries = <<>>
    /\ \/ gen \in MangleCalls
       \/ gen \in ExpressionCalls
       \/ gen \in StatementCalls
       \/ gen \in SequenceCalls
       \/ gen \in ConditionCalls
       \/ gen \in DefaultCalls
       \/ gen \in BodyCalls
       \/ gen \in SliceStatementCalls

GenNext ==
    /\ UNCHANGED OptimizerVars
    /\ \/ CallMangleAttributeName
       \/ CallGenerateExpressionCode
       \/ CallGenerateStatementCode
       \/ CallGenerateStatementSequenceCode
       \/ CallGenerateConditionCode
       \/ CallGenerateDefaultIdentifiers
       \/ CallGenerateBodyCode
       \/ TranslateNestedBody
       \/ CompleteBody
       \/ CallGenerateAssignmentSliceCode
       \/ CallGenerateDelSliceCode

GenSpec == GenInit /\ [][GenNext]_vars

\* ================================================================== claims
\* What the last onEnterNode was called for, in the tree as it was then.
Visited == rule # "start"
VisitedNode == NodeAt(before, visited)
VisitedParent == NodeAt(before, ParentPath(visited))
\* The node now at the place of the visited node's parent.
Replacement == NodeAt(tree, ParentPath(visited))
\* Everything outside the visited node's parent is as it was.
OnlyParentChanged == replaceWith(tree, ParentPath(visited), VisitedParent) = before

\* The last visit was of a raise statement that is not the last statement
\* of its statement sequence.
VisitedUnreachableCode ==
    /\ Visited
    /\ isStatementRaiseException(VisitedNode)
    /\ isStatementsSequence(VisitedParent)
    /\ ChildIndex(visited) < Len(getStatements(VisitedParent))

\* C1: after the visit of a raise statement that is not the last statement
\* of its parent statement sequence, the sequence holds exactly the original
\* statements up to and including that raise, in order, nothing else in the
\* tree has changed, a change was signalled and the traversal restarted.
C1_UnreachableStatementsRemoved ==
    VisitedUnreachableCode =>
        /\ Len(getStatements(Replacement)) = ChildIndex(visited)
        /\ \A i \in 1..ChildIndex(visited) :
               getStatements(Replacement)[i] = getStatements(VisitedParent)[i]
        /\ getStatements(Replacement)[ChildIndex(visited)] = VisitedNode
        /\ OnlyParentChanged
        /\ pos = 1
        /\ restarts >= 1
        /\ Len(signals) = restarts
        /\ signals[Len(signals)] = "new_raise new_statements"

\* [s1, raise(E), s2, s3] has become [s1, raise(E)].
C1_Witness ==
    /\ VisitedUnreachableCode
    /\ before = Module(StatementsSequence(
                    <<ExpressionOnly(FunctionCall(<<>>)),
                      RaiseStmt(<<BuiltinExceptionRef("ValueError")>>),
                      ExpressionOnly(Var("a")), ExpressionOnly(Var("a"))>>))
    /\ tree = Module(StatementsSequence(
                    <<ExpressionOnly(FunctionCall(<<>>)),
                      RaiseStmt(<<BuiltinExceptionRef("ValueError")>>)>>))
    /\ restarts = 1

\* The last visit was of a raising expression directly below a print
\* statement, an operation, a function call, an expression statement or a
\* raise statement.
VisitedRaisingChild ==
    /\ Visited
    /\ isExpressionRaiseException(VisitedNode)
    /\ VisitedParent.kind \in {"StatementPrint", "ExpressionOperation",
                               "ExpressionFunctionCall", "StatementExpressionOnly",
                               "StatementRaiseException"}

\* The first raising child of the visited node's parent, in evaluation order.
FirstRaisingChild ==
    LET kids == getVisitableNodes(VisitedParent)
        k == CHOOSE i \in 1..Len(kids) :
                 /\ kids[i].kind = "ExpressionRaiseException"
                 /\ \A j \in 1..(i - 1) : kids[j].kind # "ExpressionRaiseException"
    IN  k

\* The children of the visited node's parent that are evaluated before its
\* first raising child and may have side effects, in evaluation order.
PrecedingSideEffects ==
    LET kids == getVisitableNodes(VisitedParent)
        RECURSIVE Keep(_)
        Keep(i) == IF i >= FirstRaisingChild THEN <<>>
                   ELSE IF mayHaveSideEffects(kids[i]) THEN <<kids[i]>> \o Keep(i + 1)
                   ELSE Keep(i + 1)
    IN  Keep(1)

C3_ParentCollapsed ==
    VisitedRaisingChild =>
        LET child == getVisitableNodes(VisitedParent)[FirstRaisingChild]
        IN  /\ Replacement.kind =
                   IF VisitedParent.kind \in {"ExpressionOperation", "ExpressionFunctionCall"}
                   THEN "ExpressionRaiseException" ELSE "StatementRaiseException"
            /\ SubSeq(Replacement.kids, Replacement.nse + 1, Len(Replacement.kids))
                   = SubSeq(child.kids, child.nse + 1, Len(child.kids))
            /\ Replacement.name = child.name
            /\ Len(Replacement.kids) <= Len(child.kids) + FirstRaisingChild - 1
            /\ OnlyParentChanged
            /\ tree # before

\* print a, raise(E1), raise(E2) has become the statement raise E1.
C3_Witness ==
    /\ VisitedRaisingChild
    /\ VisitedParent.kind = "StatementPrint"
    /\ FirstRaisingChild < Len(VisitedParent.kids)
    /\ VisitedParent.kids[Len(VisitedParent.kids)].kind = "ExpressionRaiseException"
    /\ VisitedParent.kids[Len(VisitedParent.kids)] # VisitedParent.kids[FirstRaisingChild]
    /\ Replacement.kind = "StatementRaiseException"
    /\ getExceptionType(Replacement)
           = getExceptionType(VisitedParent.kids[FirstRaisingChild])

\* C4: the pass terminates: every restart follows a mutation that strictly
\* shrinks the tree, no step grows the tree, and the traversal eventually
\* completes.
C4_Terminates ==
    /\ [][/\ Size(tree') <= Size(tree)
          /\ restarts' > restarts => Size(tree') < Size(tree)]_vars
    /\ <>(pc = "done")

\* A pass that completed after three restarts.
C4_Witness == pc = "done" /\ run = 1 /\ restarts = 3 /\ Size(tree) < Size(tree0)

\* A raise statement no child of which is a raising expression.
IsPlainRaise(node) ==
    /\ isStatementRaiseException(node)
    /\ \A i \in 1..Len(node.kids) : ~isExpressionRaiseException(node.kids[i])

\* The module body is [s1, raise(E), s2, s3] with no raise in s1, s2, s3.
IsRaiseThenThree(t) ==
    LET body == getStatements(NodeAt(t, <<1>>))
    IN  /\ Len(body) = 4
        /\ IsPlainRaise(body[2])
        /\ \A i \in {1, 3, 4} :
               /\ body[i].kind = "StatementExpressionOnly"
               /\ body[i].kids[1] \in Atoms

\* C5: in a second application of the pass to the tree the first one left,
\* nothing is mutated and no change is signalled; and for the shape
\* [s1, raise(E), s2, s3] the first application completes after exactly one
\* restart, with [s1, raise(E)].
C5_FixedPoint ==
    /\ run >= 2 => tree = before /\ signals = <<>> /\ restarts = 0
    /\ (run = 1 /\ pc = "done" /\ IsRaiseThenThree(tree0)) =>
           /\ restarts = 1
           /\ Len(signals) = 1
           /\ getStatements(NodeAt(tree, <<1>>))
                  = SubSeq(getStatements(NodeAt(tree0, <<1>>)), 1, 2)

\* The second application over [s1, raise(E)] has completed.
C5_Witness ==
    /\ run = 2
    /\ pc = "done"
    /\ IsRaiseThenThree(tree0)
    /\ Len(getStatements(NodeAt(tree, <<1>>))) = 2
    /\ signals = <<>>

\* C6: a step mutates the tree exactly when it signals one change, and
\* then it restarts the traversal; so between two restarts the tree is
\* mutated at most once.
C6_MutationSignalRestart ==
    [][run' = run =>
          /\ tree' # tree <=> signals' # signals
          /\ tree' # tree =>
                 /\ Len(signals') = Len(signals) + 1
                 /\ SubSeq(signals', 1, Len(signals)) = signals
                 /\ restarts' = restarts + 1
                 /\ pos' = 1
          /\ tree' = tree => restarts' = restarts]_vars

\* Two mutations were made, each signalled and followed by a restart.
C6_Witness == restarts = 2 /\ Len(signals) = 2 /\ pos = 1 /\ tree # before

\* A call of matchesException with caught types that include a built-in
\* exception reference of the name of the raised built-in exception.
IsSameNameCall(call) ==
    /\ call.raised_exception.kind \in {"ExpressionBuiltinExceptionRef",
                                       "ExpressionBuiltinMakeException"}
    /\ \E i \in 1..Len(call.catched_exceptions) :
           /\ call.catched_exceptions[i].kind = "ExpressionBuiltinExceptionRef"
           /\ call.catched_exceptions[i].name = call.raised_exception.name

\* C7: matchesException returns True when some caught type is a built-in
\* exception reference and the raised exception is a built-in exception
\* reference or construction of the same name.
C7_SameNameMatches ==
    \A i \in 1..Len(queries) :
        IsSameNameCall(queries[i]) => queries[i].match = MatchTrue

\* Handler (TypeError, ValueError), raise ValueError: True.
C7_Witness ==
    \E i \in 1..Len(queries) :
        /\ queries[i].catched_exceptions =
               <<BuiltinExceptionRef("TypeError"), BuiltinExceptionRef("ValueError")>>
        /\ queries[i].raised_exception = BuiltinExceptionRef("ValueError")
        /\ queries[i].match = MatchTrue

\* A call of matchesException with caught types that are all built-in
\* exception references of another name than the raised built-in exception.
IsOtherNameCall(call) ==
    /\ call.raised_exception.kind \in {"ExpressionBuiltinExceptionRef",
                                       "ExpressionBuiltinMakeException"}
    /\ call.catched_exceptions # <<>>
    /\ \A i \in 1..Len(call.catched_exceptions) :
           /\ call.catched_exceptions[i].kind = "ExpressionBuiltinExceptionRef"
           /\ call.catched_exceptions[i].name # call.raised_exception.name

\* C8 as stated: matchesException returns False when the handler catches a
\* built-in exception reference of another name than the raised one.
C8_OtherNameIsFalse ==
    \A i \in 1..Len(queries) :
        IsOtherNameCall(queries[i]) => queries[i].match = MatchFalse

\* C8 as amended: matchesException returns None, the unknown value, when
\* the handler catches built-in exception references of other names than the
\* raised one; it never returns False.
C8_OtherNameIsUnknown ==
    \A i \in 1..Len(queries) :
        /\ IsOtherNameCall(queries[i]) => queries[i].match = MatchNone
        /\ queries[i].match # MatchFalse

\* Handler ValueError, raise TypeError(...): None.
C8_Witness ==
    \E i \in 1..Len(queries) :
        /\ queries[i].catched_exceptions = <<BuiltinExceptionRef("ValueError")>>
        /\ queries[i].raised_exception = BuiltinMakeException("TypeError")
        /\ queries[i].match = MatchNone

\* A call of matchesException with caught types none of which is a built-in
\* exception reference, or with no raised exception, or with a raised
\* exception that is not a built-in exception form.
IsUndecidableCall(call) ==
    \/ /\ call.catched_exceptions # <<>>
       /\ \A i \in 1..Len(call.catched_exceptions) :
              call.catched_exceptions[i].kind # "ExpressionBuiltinExceptionRef"
    \/ call.raised_exception = NoneValue
    \/ call.raised_exception.kind \notin {"ExpressionBuiltinExceptionRef",
                                          "ExpressionBuiltinMakeException"}

\* C9: matchesException returns None, neither True nor False, when none of
\* the caught types is a built-in exception reference or the raised
\* exception is absent or not a built-in exception form; and the visit that
\* made the call has not changed the tree.
C9_UndecidableIsUnknown ==
    \A i \in 1..Len(queries) :
        IsUndecidableCall(queries[i]) =>
            /\ queries[i].match = MatchNone
            /\ tree = before
            /\ pc # "aborted"

\* Handler E (a variable), raise ValueError: None; and a bare raise.
C9_Witness ==
    /\ \E i \in 1..Len(queries) :
           /\ queries[i].catched_exceptions = <<Var("E")>>
           /\ queries[i].raised_exception = BuiltinExceptionRef("ValueError")
           /\ queries[i].match = MatchNone
    /\ tree = before

\* The node to enter is a raise statement that is the only statement of
\* the tried block of a try statement.
EnteringRaiseOfTry ==
    /\ Entering
    /\ Len(CurrentPath) >= 2
    /\ isStatementRaiseException(CurrentNode)
    /\ isStatementsSequence(CurrentParent)
    /\ Len(getStatements(CurrentParent)) = 1
    /\ isStatementTryExcept(NodeAt(tree, ParentPath(ParentPath(CurrentPath))))
    /\ ChildIndex(ParentPath(CurrentPath)) = 1

Returned(op) == gen.op = op /\ gen.pc = "return"

IsPrivateName(name) == startswith(name, <<"_", "_">>) /\ ~endswith(name, <<"_", "_">>)

ClassIndexes(parents) == {i \in 1..Len(parents) : isExpressionClassBody(parents[i])}

FunctionIndexes(parents) == {i \in 1..Len(parents) : isExpressionFunctionBody(parents[i])}

FirstClassIndex(parents) ==
    CHOOSE i \in ClassIndexes(parents) : \A j \in ClassIndexes(parents) : i <= j

FunctionCrossed(parents) ==
    /\ ClassIndexes(parents) # {}
    /\ \E f \in FunctionIndexes(parents) : f < FirstClassIndex(parents)

ClassReachedDirectly(parents) ==
    /\ ClassIndexes(parents) # {}
    /\ ~\E f \in FunctionIndexes(parents) : f < FirstClassIndex(parents)

MangledName(name, parents) == <<"_">> \o parents[FirstClassIndex(parents)].name \o name

TranslatedExpression(kinds) ==
    /\ Returned("generateExpressionCode")
    /\ gen.expression.kind \in kinds

\* The elements of a literal: the keys and values of a dict literal.
LiteralConstituents(literal) ==
    IF literal.kind = "ExpressionMakeDict"
    THEN {getKey(literal.kids[i]) : i \in 1..Len(literal.kids)}
             \cup {getValue(literal.kids[i]) : i \in 1..Len(literal.kids)}
    ELSE {literal.kids[i] : i \in 1..Len(literal.kids)}

AllImmutableConstants(literal) ==
    \A element \in LiteralConstituents(literal) :
        isExpressionConstantRef(element) /\ ~isMutableConstant(element.value)

OneConstantHandle(identifier, type) ==
    /\ identifier.call = "getConstantHandle"
    /\ Len(identifier.with) = 1
    /\ identifier.with[1].type = type

ConstantType(literal) ==
    CASE literal.kind = "ExpressionMakeTuple" -> "tuple"
      [] literal.kind = "ExpressionMakeList" -> "list"
      [] literal.kind = "ExpressionMakeDict" -> "dict"
      [] literal.kind = "ExpressionMakeSet" -> "set"

\* C12 as stated: a tuple, list, dict or set literal whose elements are all
\* immutable constants is translated by one constant-handle call, never
\* element by element.
C12_ConstantLiteralOneHandle ==
    (/\ TranslatedExpression({"ExpressionMakeTuple", "ExpressionMakeList",
                              "ExpressionMakeDict", "ExpressionMakeSet"})
     /\ AllImmutableConstants(gen.expression)) =>
        OneConstantHandle(gen.result, ConstantType(gen.expression))

\* C12 amended: a tuple, list or dict literal whose elements are all immutable
\* constants is translated by one constant-handle call for the whole
\* constant; a set literal is always built element by element, one constant
\* access per constant element and then the set construction call.
C12_ConstantTupleListDictOneHandle ==
    /\ (/\ TranslatedExpression({"ExpressionMakeTuple", "ExpressionMakeList",
                                 "ExpressionMakeDict"})
        /\ AllImmutableConstants(gen.expression)) =>
            OneConstantHandle(gen.result, ConstantType(gen.expression))
    /\ (/\ TranslatedExpression({"ExpressionMakeSet"})
        /\ AllImmutableConstants(gen.expression)) =>
            gen.result =
                Call("getSetCreationCode",
                     [i \in 1..Len(gen.expression.kids) |->
                         Call("getConstantAccess", <<gen.expression.kids[i].value>>)])

C12_Witness ==
    /\ TranslatedExpression({"ExpressionMakeDict"})
    /\ gen.expression.kids =
           <<KeyValuePair(ConstantRef(IntConstant(1)), ConstantRef(IntConstant(1))),
             KeyValuePair(ConstantRef(IntConstant(1)), ConstantRef(IntConstant(2)))>>
    /\ gen.result =
           Call("getConstantHandle",
                <<DictConstant(<<<<IntConstant(1), IntConstant(2)>>>>)>>)

\* A slice bound that is absent or a constant of magnitude below 2^63-1.
AbsentOrSmallConstant(bound) ==
    \/ isNone(bound)
    \/ /\ isExpressionConstantRef(bound)
       /\ isNumberConstant(bound.value)
       /\ LimbsLess(bound.value.value.limbs, MaxIndexLimbs, 1)

AbsentOrIndexable(bound) == isNone(bound) \/ isIndexable(bound)

IndexedPath(identifier) == identifier.call = "getSliceLookupIndexesCode"

NativeSlicePath(identifier) == identifier.call = "getSliceLookupCode"

SliceObjectPath(identifier) ==
    /\ identifier.call = "getSubscriptLookupCode"
    /\ identifier.with[2].call = "getSliceObjectCode"

\* C13 as stated: the indexed path is taken exactly when native slicing is
\* available and each bound is absent or a constant of magnitude below
\* 2^63-1; every other slice lookup takes the slice-object path.
C13_IndexedIffSmallConstants ==
    TranslatedExpression({"ExpressionSliceLookup"}) =>
        LET fast == /\ gen.python_version < 300
                    /\ AbsentOrSmallConstant(getLower(gen.expression))
                    /\ AbsentOrSmallConstant(getUpper(gen.expression))
        IN  /\ IndexedPath(gen.result) <=> fast
            /\ ~fast => SliceObjectPath(gen.result)

\* C13 amended: the indexed path is taken exactly when native slicing is
\* available and each bound is absent or answers isIndexable(); otherwise the
\* native slice call with the translated bounds is made when native slicing
\* is available, and the subscript lookup with a slice object only when it is
\* not.
C13_IndexedIffIndexable ==
    TranslatedExpression({"ExpressionSliceLookup"}) =>
        LET fast == /\ gen.python_version < 300
                    /\ AbsentOrIndexable(getLower(gen.expression))
                    /\ AbsentOrIndexable(getUpper(gen.expression))
        IN  /\ IndexedPath(gen.result) <=> fast
            /\ (~fast /\ gen.python_version < 300) => NativeSlicePath(gen.result)
            /\ gen.python_version >= 300 => SliceObjectPath(gen.result)

C13_Witness ==
    /\ TranslatedExpression({"ExpressionSliceLookup"})
    /\ gen.python_version = 270
    /\ getLower(gen.expression) = VariableRef("b")
    /\ getUpper(gen.expression) = Indexable(ConstantRef(IntConstant(0)))
    /\ NativeSlicePath(gen.result)

\* The expression kinds with a branch in generateExpressionCode.
HasExpressionBranch(kind, python_version) ==
    \/ kind \in OtherDispatchedExpressionKinds
    \/ kind \in {"ExpressionVariableRef", "ExpressionConstantRef", "ExpressionMakeTuple",
                 "ExpressionMakeList", "ExpressionMakeSet", "ExpressionMakeDict",
                 "ExpressionSliceLookup"}
    \/ kind = "ExpressionBuiltinLong" /\ python_version < 300

\* The statement kinds with a branch in _generateStatementCode.
HasStatementBranch(kind) ==
    \/ kind \in OtherDispatchedStatementKinds
    \/ kind \in {"StatementTryExcept", "StatementRaiseException", "StatementDeclareGlobal"}

UntranslatableExpression(expression, python_version) ==
    \/ ~isExpression(expression)
    \/ ~HasExpressionBranch(expression.kind, python_version)
    \/ expression.kind = "ExpressionVariableRef" /\ expression.value = "None"

UntranslatableStatement(statement) ==
    \/ ~isStatement(statement)
    \/ ~HasStatementBranch(statement.kind)

\* C15: an expression or statement whose kind has no dispatch branch, a node
\* that is not an expression (resp. statement), or a variable reference with
\* no resolved variable ends the translation by an assertion failure: no
\* identifier, no code and no default emission comes back.
C15_UnmatchedNodeAsserts ==
    /\ (/\ Returned("generateExpressionCode")
        /\ UntranslatableExpression(gen.expression, gen.python_version)) =>
            gen.result = AssertionError
    /\ (/\ Returned("generateStatementCode")
        /\ UntranslatableStatement(gen.statement)) =>
            gen.result = StatementAssertionError

C15_Witness ==
    /\ Returned("generateExpressionCode")
    /\ gen.expression.kind = "ExpressionBuiltinLong"
    /\ gen.python_version = 300
    /\ gen.result = AssertionError

\* The lines of a returned code sequence.
ReturnedCodes ==
    /\ Returned("generateStatementSequenceCode")
    /\ gen.result.status = "codes"

\* C16 as stated: every element of a returned code sequence is non-empty and
\* has no leading or trailing blank padding.
C16_NoElementEmptyOrPadded ==
    ReturnedCodes =>
        \A i \in 1..Len(gen.result.codes) :
            /\ gen.result.codes[i] # <<>>
            /\ strip(gen.result.codes[i]) = gen.result.codes[i]

\* C16 amended: of the lines each statement gives to a returned code
\* sequence, the first and the last are not blank and the last has no
\* trailing padding; the lines between them may be empty or padded.
C16_StatementEndsNotBlank ==
    ReturnedCodes =>
        \A k \in 1..Len(gen.result.spans) :
            LET first == gen.result.codes[gen.result.spans[k][1]]
                last == gen.result.codes[gen.result.spans[k][2]]
            IN  /\ strip(first) # <<>>
                /\ strip(last) # <<>>
                /\ rstrip(last) = last

C16_Witness ==
    /\ ReturnedCodes
    /\ gen.statement_sequence = Sequence(<<CompactTry(<<"x">>, <<"x">>)>>)
    /\ ~gen.trace
    /\ gen.result.codes =
           <<<<"l">>, <<"P">>, <<>>, <<"i", "f">>, <<"{">>,
             <<" ", " ", " ", " ", "l">>, <<" ", " ", " ", " ", "x">>, <<"}">>,
             <<" ", " ", " ", " ", "x">>>>

\* What generateStatementCode returned for a statement of the kind.
TranslatedStatement(kind) ==
    /\ Returned("generateStatementCode")
    /\ gen.statement.kind = kind
    /\ gen.result # StatementAssertionError

TriedStatements == gen.statement.kids[1].kids

HandlersOfTry ==
    SelectSeq(gen.statement.kids, LAMBDA k : k.kind = "StatementExceptHandler")

CaughtTypes(handler) == SubSeq(handler.kids, 1, Len(handler.kids) - 1)

BranchOf(handler) == handler.kids[Len(handler.kids)]

\* The conditions of the compact emission, as C17 lists them.
CompactConditions ==
    /\ Len(TriedStatements) = 1
    /\ TriedStatements[1].kind = "StatementAssignmentVariable"
    /\ TriedStatements[1].kids[2].kind = "ExpressionBuiltinNext1"
    /\ TriedStatements[1].kids[2].kids[1].kind
           \in {"ExpressionConstantRef", "ExpressionTempVariableRef"}
    /\ Len(HandlersOfTry) = 1
    /\ Len(CaughtTypes(HandlersOfTry[1])) = 1
    /\ CaughtTypes(HandlersOfTry[1])[1].kind = "ExpressionBuiltinExceptionRef"
    /\ CaughtTypes(HandlersOfTry[1])[1].name = "StopIteration"
    /\ BranchOf(HandlersOfTry[1]).kids # <<>>
    /\ BranchOf(HandlersOfTry[1]).kids[Len(BranchOf(HandlersOfTry[1]).kids)].kind
           \in {"StatementReturn", "StatementRaiseException",
                "StatementContinueLoop", "StatementBreakLoop"}

\* C17: the compact emission is taken exactly under the listed conditions;
\* otherwise the generic emission is made with one handler code per handler,
\* in handler order, only the first flagged as first.
C17_CompactIffConditions ==
    TranslatedStatement("StatementTryExcept") =>
        /\ gen.result.call = "ITERATOR_NEXT" <=> CompactConditions
        /\ ~CompactConditions =>
            /\ gen.result.call = "getTryExceptCode"
            /\ Len(gen.result.with[2]) = Len(HandlersOfTry)
            /\ \A i \in 1..Len(HandlersOfTry) :
                   /\ gen.result.with[2][i].call = "getTryExceptHandlerCode"
                   /\ gen.result.with[2][i].with[1] =
                          generateExpressionsCode(CaughtTypes(HandlersOfTry[i]),
                                                  gen.python_version)
                   /\ gen.result.with[2][i].with[3] = (i = 1)

C17_Witness ==
    /\ TranslatedStatement("StatementTryExcept")
    /\ CompactConditions
    /\ gen.result.call = "ITERATOR_NEXT"

RaisePart(i) == gen.statement.kids[i]

RaiseEmission(type, value, tb, maker) ==
    /\ gen.result.call = "getRaiseExceptionCode"
    /\ gen.result.with = <<type, value, tb, maker>>

TranslationOf(expression) == generateExpressionCode(expression, gen.python_version)

TracebackMaker == Call("getTracebackMakingIdentifier", <<>>)

\* C18: the first absent of type, value and traceback selects the emission:
\* the re-raise with the local flag, the type-only raise (a traceback is
\* ignored), the type-and-value raise, or the three-argument raise; the raise
\* emissions get a traceback maker exactly when they get no traceback
\* identifier.
C18_RaiseByFirstAbsent ==
    TranslatedStatement("StatementRaiseException") =>
        /\ isNone(RaisePart(1)) =>
               /\ gen.result.call = "getReRaiseExceptionCode"
               /\ gen.result.with = <<gen.statement.value.local>>
        /\ (~isNone(RaisePart(1)) /\ isNone(RaisePart(2))) =>
               RaiseEmission(TranslationOf(RaisePart(1)), NoIdentifier, NoIdentifier,
                             TracebackMaker)
        /\ (~isNone(RaisePart(1)) /\ ~isNone(RaisePart(2)) /\ isNone(RaisePart(3))) =>
               RaiseEmission(TranslationOf(RaisePart(1)), TranslationOf(RaisePart(2)),
                             NoIdentifier, TracebackMaker)
        /\ (~isNone(RaisePart(1)) /\ ~isNone(RaisePart(2)) /\ ~isNone(RaisePart(3))) =>
               RaiseEmission(TranslationOf(RaisePart(1)), TranslationOf(RaisePart(2)),
                             TranslationOf(RaisePart(3)), NoIdentifier)
        /\ gen.result.call = "getRaiseExceptionCode" =>
               (gen.result.with[4] = TracebackMaker <=> gen.result.with[3] = NoIdentifier)

C18_Witness ==
    /\ TranslatedStatement("StatementRaiseException")
    /\ ~isNone(RaisePart(1)) /\ isNone(RaisePart(2)) /\ ~isNone(RaisePart(3))
    /\ gen.result.with[3] = NoIdentifier
    /\ gen.result.with[4] = TracebackMaker

\* What generateConditionCode returned for a condition of the kind.
TranslatedCondition(kind) ==
    /\ Returned("generateConditionCode")
    /\ gen.condition.kind = kind

\* The truth value Python gives a constant.
IsTrue(constant) ==
    \/ constant.type = "int" /\ constant.value.limbs # <<0, 0, 0, 0>>
    \/ constant.type = "bool" /\ constant.value = TRUE
    \/ constant.type \in {"str", "tuple", "list", "dict"} /\ Len(constant.value) > 0

\* C19: a constant condition c with inversion flag i gives the literal true
\* expression exactly when truth(c) XOR i, the literal false expression
\* otherwise, with no translation of c and no truth test around it.
C19_ConstantConditionFolds ==
    TranslatedCondition("ExpressionConstantRef") =>
        IF IsTrue(gen.condition.value) # gen.inverted
        THEN gen.result = Call("getTrueExpressionCode", <<>>)
        ELSE gen.result = Call("getFalseExpressionCode", <<>>)

C19_Witness ==
    /\ TranslatedCondition("ExpressionConstantRef")
    /\ gen.condition.value = Str(<<>>)
    /\ gen.inverted
    /\ gen.result = Call("getTrueExpressionCode", <<>>)

IsNegation(identifier) == identifier.call = "getConditionNotBoolCode"

\* A negation applied directly to a negation, anywhere in an emitted
\* condition.
RECURSIVE HasNestedNegation(_)
HasNestedNegation(identifier) ==
    IF identifier.call \notin {"getConditionNotBoolCode", "getConditionOrCode",
                               "getConditionAndCode"}
    THEN FALSE
    ELSE \/ IsNegation(identifier) /\ IsNegation(identifier.with[1])
         \/ \E i \in 1..Len(identifier.with) : HasNestedNegation(identifier.with[i])

\* A logical NOT whose operand is a logical NOT, anywhere in a condition.
RECURSIVE HasNotOfNot(_)
HasNotOfNot(condition) ==
    \/ /\ condition.kind = "ExpressionOperationNOT"
       /\ condition.kids[1].kind = "ExpressionOperationNOT"
    \/ /\ condition.kind \in {"ExpressionOperationNOT", "ExpressionBoolOR",
                              "ExpressionBoolAND"}
       /\ \E i \in 1..Len(condition.kids) : HasNotOfNot(condition.kids[i])

OperandTranslation ==
    generateConditionCode(gen.condition.kids[1], FALSE, FALSE, gen.python_version)

\* C20 as stated: with inversion requested NOT(x) gives the translation of x
\* with no negation around it, and no emitted condition has a negation
\* applied directly to a negation.
C20_NeverNestedNegations ==
    /\ (TranslatedCondition("ExpressionOperationNOT") /\ gen.inverted) =>
           gen.result = OperandTranslation
    /\ Returned("generateConditionCode") => ~HasNestedNegation(gen.result)

\* C20 amended: with inversion requested NOT(x) gives the translation of x
\* with no negation around it; without inversion it gives one negation around
\* the translation of x, which is itself a negation when x is a NOT; a
\* condition with no NOT directly inside a NOT gives no negation applied
\* directly to a negation.
C20_NotCollapsesWithInversion ==
    /\ (TranslatedCondition("ExpressionOperationNOT") /\ gen.inverted) =>
           gen.result = OperandTranslation
    /\ (TranslatedCondition("ExpressionOperationNOT") /\ ~gen.inverted) =>
           gen.result = Call("getConditionNotBoolCode", <<OperandTranslation>>)
    /\ (Returned("generateConditionCode") /\ ~HasNotOfNot(gen.condition)) =>
           ~HasNestedNegation(gen.result)

C20_Witness ==
    /\ TranslatedCondition("ExpressionOperationNOT")
    /\ gen.inverted
    /\ gen.condition.kids[1] = Comparison(VariableRef("a"), VariableRef("b"))
    /\ gen.result.call = "getComparisonExpressionBoolCode"

\* ------------------------------------------------------------------- C21
\* The statements of the translated sequence, the code of statement i, and
\* the indexes of the statements that gave code, in order.
SequenceOf == getStatements(gen.statement_sequence)

CodeOf(i) == generateStatementCode(SequenceOf[i], gen.python_version, gen.trace).text

Producing ==
    LET gives_code(i) == CodeOf(i) # <<>>
    IN  SelectSeq([i \in 1..Len(SequenceOf) |-> i], gives_code)

\* The source location marker is due for the k-th statement that gave code.
MarkerDue(k) ==
    \/ k = 1
    \/ SequenceOf[Producing[k]].value.source_ref
           # SequenceOf[Producing[k - 1]].value.source_ref

LinesOfSpan(k) ==
    SubSeq(gen.result.codes, gen.result.spans[k][1], gen.result.spans[k][2])

\* The k-th statement that gave code gave span k: its code, after the marker
\* when the marker is due.
SpansAreStatementCodes ==
    /\ Len(gen.result.spans) = Len(Producing)
    /\ \A k \in 1..Len(Producing) :
           LinesOfSpan(k) =
               split((IF MarkerDue(k) THEN getLineNumberCode ELSE <<>>)
                         \o CodeOf(Producing[k]), 1, <<>>)

\* The lines are the spans one after the other and nothing else.
SpansOnly ==
    /\ \A k \in 1..Len(gen.result.spans) :
           gen.result.spans[k][1] =
               IF k = 1 THEN 1 ELSE gen.result.spans[k - 1][2] + 1
    /\ Len(gen.result.codes) =
           IF gen.result.spans = <<>> THEN 0
           ELSE gen.result.spans[Len(gen.result.spans)][2]

\* Statement i gave a trace line just before what else it gave.
TraceLineAt(i) ==
    LET earlier == Len(SelectSeq(Producing, LAMBDA j : j < i))
    IN  IF earlier = 0 THEN i
        ELSE gen.result.spans[earlier][2] + (i - Producing[earlier])

TracedSpans ==
    /\ \A i \in 1..Len(SequenceOf) :
           /\ TraceLineAt(i) <= Len(gen.result.codes)
           /\ gen.result.codes[TraceLineAt(i)] = getStatementTrace
    /\ \A k \in 1..Len(gen.result.spans) :
           gen.result.spans[k][1] = TraceLineAt(Producing[k]) + 1
    /\ Len(gen.result.codes) =
           IF SequenceOf = <<>> THEN 0
           ELSE IF Producing # <<>> /\ Producing[Len(Producing)] = Len(SequenceOf)
           THEN gen.result.spans[Len(gen.result.spans)][2]
           ELSE TraceLineAt(Len(SequenceOf))

\* C21 as stated: the lines of a translated sequence are the codes of its
\* statements in order, each after the location marker exactly when its
\* source location differs from that of the last statement before it that
\* gave code; a statement of empty code gives no line at all.
C21_OnlyStatementCodeAndMarkers ==
    ReturnedCodes => SpansAreStatementCodes /\ SpansOnly

\* C21 amended: the same holds with execution tracing off; with tracing on,
\* every statement, a statement of empty code included, gives one trace line
\* before its code, and the markers are decided as without tracing.
C21_MarkersAndTraceLines ==
    ReturnedCodes =>
        /\ SpansAreStatementCodes
        /\ IF gen.trace THEN TracedSpans ELSE SpansOnly

C21_Witness ==
    /\ ReturnedCodes
    /\ ~gen.trace
    /\ gen.statement_sequence =
           Sequence(<<Plain("StatementExpressionOnly", <<"x">>, 1),
                      Statement("StatementDeclareGlobal", <<>>, 2, <<>>),
                      Plain("StatementExpressionOnly", <<"x">>, 1)>>)
    /\ gen.result.codes = <<<<"l">>, <<"x">>, <<"x">>>>

\* ------------------------------------------------------------------- C22
BodyCall == gen.op = "generateBodyCode"

\* The context made for the body at a path.
ContextOf(path) == CHOOSE c \in 1..Len(gen.contexts) : gen.contexts[c].body = path

\* The context a body was translated in: that of the body around it, or the
\* caller's.
EnclosingContext(path) == IF path = <<>> THEN 0 ELSE ContextOf(ParentPath(path))

OneChildContextEach ==
    \A c \in 1..Len(gen.contexts) :
        /\ gen.contexts[c].parent = EnclosingContext(gen.contexts[c].body)
        /\ \A d \in 1..Len(gen.contexts) :
               gen.contexts[d].body = gen.contexts[c].body => d = c

RegisteredAfterNested ==
    \A r \in 1..Len(gen.registered) :
        /\ gen.registered[r].context = EnclosingContext(gen.registered[r].body)
        /\ \A q \in 1..Len(gen.registered) :
               gen.registered[q].body = gen.registered[r].body => q = r
        /\ \A i \in 1..Len(NodeAt(gen.expression, gen.registered[r].body).kids) :
               \E q \in 1..(r - 1) :
                   gen.registered[q].body = Append(gen.registered[r].body, i)

IsCreationIdentifier(identifier) ==
    identifier.call \in {"getFunctionCreationCode", "getClassCreationCode"}

\* What comes back from a body is the identifier that creates it, and every
\* body that was translated is registered.
NeverInline ==
    /\ \A f \in 1..Len(gen.stack) :
           \A i \in 1..Len(gen.stack[f].codes) :
               IsCreationIdentifier(gen.stack[f].codes[i])
    /\ gen.pc = "return" /\ gen.result # AssertionError =>
           /\ IsCreationIdentifier(gen.result)
           /\ \A c \in 1..Len(gen.contexts) :
                  \E r \in 1..Len(gen.registered) :
                      gen.registered[r].body = gen.contexts[c].body

\* C22: every translation of a function or class body makes one context,
\* child of the context around it, and registers one declaration and
\* definition into the context around it after the bodies nested in it were
\* registered; what it returns is the creation identifier, never the code.
C22_BodiesRegisteredPostOrder ==
    BodyCall => OneChildContextEach /\ RegisteredAfterNested /\ NeverInline

C22_Witness ==
    /\ BodyCall
    /\ gen.pc = "return"
    /\ Len(gen.registered) = 4
    /\ gen.registered[1].body = <<1, 1>>
    /\ gen.registered[2].body = <<1>>
    /\ gen.registered[3].body = <<2>>
    /\ gen.registered[4].body = <<>>
    /\ gen.registered[1].context = 2
    /\ gen.registered[4].context = 0

\* ------------------------------------------------------------------- C23
DefaultsReturned ==
    /\ Returned("generateDefaultIdentifiers")
    /\ gen.result.status = "identifiers"

IsImmutableConstantDefault(default) ==
    /\ default.kind = "ExpressionConstantRef"
    /\ default.value.type \notin {"list", "dict", "set"}

\* The defaulted parameters whose default is stored, in parameter order.
StoredDefaults ==
    LET is_stored(i) == ~IsImmutableConstantDefault(gen.default_expressions[i])
    IN  SelectSeq([i \in 1..Len(gen.default_expressions) |-> i], is_stored)

TranslatedIn(context, default) ==
    Call("generateExpressionCode",
         <<context, generateExpressionCode(default, gen.python_version)>>)

\* C23: one access identifier per defaulted parameter in parameter order; an
\* immutable constant default is translated directly and stores nothing,
\* every other default is translated once in the enclosing context as a
\* stored value, in parameter order, and accessed through the default value
\* access of its variable.
C23_DefaultsInlinedOrStored ==
    DefaultsReturned =>
        /\ Len(gen.result.access) = Len(gen.default_expressions)
        /\ \A i \in 1..Len(gen.default_expressions) :
               gen.result.access[i] =
                   IF IsImmutableConstantDefault(gen.default_expressions[i])
                   THEN TranslatedIn(gen.sub_context, gen.default_expressions[i])
                   ELSE Call("getDefaultValueAccess", <<gen.variables[i]>>)
        /\ Len(gen.result.values) = Len(StoredDefaults)
        /\ \A k \in 1..Len(StoredDefaults) :
               gen.result.values[k] =
                   TranslatedIn(gen.context, gen.default_expressions[StoredDefaults[k]])

C23_Witness ==
    /\ DefaultsReturned
    /\ gen.default_expressions = <<ConstantRef(ListConstant(<<>>)), ConstantRef(IntConstant(1))>>
    /\ Len(gen.result.values) = 1
    /\ gen.result.access[1] = Call("getDefaultValueAccess", <<"p">>)
    /\ gen.result.access[2].call = "generateExpressionCode"

\* ------------------------------------------------------------------- C24
\* The last onEnterNode was for a raise statement at the start of a try
\* block and went through the handlers.
VisitedRaiseOfTry == rule = "handlers"

\* C24: the visit of a raise statement at the start of a try block never
\* fails the assertion of the handler loop: no handler is answered with a
\* definite False, the optimizer is not aborted, and the tree is as it was
\* unless the last answer was a definite True.
C24_HandlerLoopNeverAborts ==
    VisitedRaiseOfTry =>
        /\ pc # "aborted"
        /\ \A i \in 1..Len(queries) : queries[i].match # MatchFalse
        /\ tree # before =>
               /\ queries # <<>>
               /\ queries[Len(queries)].match = MatchTrue

\* A handler that names another exception than the raised one was asked, and
\* the traversal went on.
C24_Witness ==
    /\ VisitedRaiseOfTry
    /\ pc = "visit"
    /\ Len(queries) = 2
    /\ \E i \in 1..Len(queries[1].catched_exceptions) :
           /\ isExpressionBuiltinExceptionRef(queries[1].catched_exceptions[i])
           /\ isExpressionBuiltinExceptionRef(queries[1].raised_exception)
           /\ getExceptionName(queries[1].catched_exceptions[i])
                  # getExceptionName(queries[1].raised_exception)
    /\ queries[1].match = MatchNone

\* ------------------------------------------------------------------- C25
\* A try statement with a no-raise block was translated.
TranslatedTryWithElse ==
    /\ TranslatedStatement("StatementTryExcept")
    /\ ~isNone(getBlockNoRaise(gen.statement))

ElseCode ==
    generateStatementSequenceCode(getBlockNoRaise(gen.statement), gen.python_version,
                                  gen.trace, TRUE)

\* The emission was given the code of the no-raise block: as else_code on
\* the generic path, beside the source and the handler code on the compact
\* path.
ElseCodeEmitted ==
    IF gen.result.call = "getTryExceptCode" THEN gen.result.with[3] = ElseCode
    ELSE \E i \in 1..Len(gen.result.with) :
             /\ i \notin {1, 2}
             /\ gen.result.with[i] = ElseCode

\* C25: the code of the no-raise block of a try statement is part of what is
\* emitted for the statement, on the compact path and on the generic path.
C25_ElseCodeEmitted ==
    TranslatedTryWithElse => ElseCodeEmitted

\* ------------------------------------------------------------------- C26
\* A traversal of the whole tree completed and signalled no change.
PassCompleteUnchanged == pc = "done" /\ signals = <<>>

NothingAfterRaise(node) ==
    node.kind = "StatementsSequence" =>
        \A i \in 1..(Len(node.kids) - 1) : node.kids[i].kind # "StatementRaiseException"

NoRaisingChild(node) ==
    node.kind \in {"StatementPrint", "ExpressionOperation", "ExpressionFunctionCall",
                   "StatementExpressionOnly", "StatementRaiseException"} =>
        \A i \in 1..Len(node.kids) : node.kids[i].kind # "ExpressionRaiseException"

\* C26: when a traversal completes without a signalled change, no statement
\* sequence of the tree has a statement after a raise statement, and no
\* print statement, operation, function call, expression statement or raise
\* statement has a raising expression as a direct child.
C26_CompleteUnchangedIsNormal ==
    PassCompleteUnchanged =>
        \A i \in 1..Len(Order) :
            /\ NothingAfterRaise(NodeAt(tree, Order[i]))
            /\ NoRaisingChild(NodeAt(tree, Order[i]))

\* The second run found nothing to do in a tree the first run had rewritten
\* to a raise statement.
C26_Witness ==
    /\ PassCompleteUnchanged
    /\ run = 2
    /\ tree # tree0
    /\ \E i \in 1..Len(Order) : NodeAt(tree, Order[i]).kind = "StatementRaiseException"

\* ------------------------------------------------------------------- C29
\* onEnterNode is about to be called for a raising expression whose parent
\* is none of the five kinds.
EnteringRaiseBelowOtherParent ==
    /\ Entering
    /\ CurrentNode.kind = "ExpressionRaiseException"
    /\ CurrentParent.kind \notin
           {"StatementPrint", "ExpressionOperation", "ExpressionFunctionCall",
            "StatementExpressionOnly", "StatementRaiseException"}

\* C29: the visit of a raising expression below a parent of any other kind
\* (a tuple construction, an assignment, a return) rewrites nothing: the
\* tree is as it was, the raise has the side effects it had, no change is
\* signalled, and the traversal goes on to the next node without a restart.
C29_OtherParentNoRewrite ==
    [][EnteringRaiseBelowOtherParent =>
          /\ tree' = tree
          /\ getSideEffects(NodeAt(tree', CurrentPath)) = getSideEffects(CurrentNode)
          /\ signals' = signals
          /\ restarts' = restarts
          /\ pos' = pos + 1
          /\ pc' = pc]_vars

\* A raising expression was visited below a tuple construction, and below a
\* return statement.
C29_Witness ==
    /\ Visited
    /\ VisitedNode.kind = "ExpressionRaiseException"
    /\ VisitedParent.kind = "ExpressionMakeSequence"
    /\ rule = "none"
    /\ tree = before

\* ------------------------------------------------------------------- C27
\* What the emitted condition codes mean.  The atoms of a condition code are
\* the comparisons and the identifiers checked for truth in it; the code
\* holds or not once it is said which atoms are true.
RECURSIVE ConditionAtomsOf(_)
ConditionAtomsOf(code) ==
    CASE code.call \in {"getTrueExpressionCode", "getFalseExpressionCode"} -> {}
      [] code.call = "getComparisonExpressionBoolCode" -> {code}
      [] code.call \in {"getConditionCheckTrueCode", "getConditionCheckFalseCode"} ->
             {code.with[1]}
      [] OTHER -> UNION {ConditionAtomsOf(code.with[i]) : i \in 1..Len(code.with)}

RECURSIVE ConditionHolds(_, _)
ConditionHolds(code, true_atoms) ==
    CASE code.call = "getTrueExpressionCode" -> TRUE
      [] code.call = "getFalseExpressionCode" -> FALSE
      [] code.call = "getComparisonExpressionBoolCode" -> code \in true_atoms
      [] code.call = "getConditionCheckTrueCode" -> code.with[1] \in true_atoms
      [] code.call = "getConditionCheckFalseCode" -> code.with[1] \notin true_atoms
      [] code.call = "getConditionNotBoolCode" -> ~ConditionHolds(code.with[1], true_atoms)
      [] code.call = "getConditionOrCode" ->
             \E i \in 1..Len(code.with) : ConditionHolds(code.with[i], true_atoms)
      [] code.call = "getConditionAndCode" ->
             \A i \in 1..Len(code.with) : ConditionHolds(code.with[i], true_atoms)

\* The same condition translated with the other inversion.
OtherInversion ==
    generateConditionCode(gen.condition, ~gen.inverted, gen.allow_none,
                          gen.python_version)

ConditionTranslatedBothWays ==
    /\ Returned("generateConditionCode")
    /\ ~isNone(gen.condition)
    /\ gen.result # AssertionError
    /\ OtherInversion # AssertionError

IsNegationOf(code, other) ==
    \A true_atoms \in SUBSET (ConditionAtomsOf(code) \cup ConditionAtomsOf(other)) :
        ConditionHolds(code, true_atoms) = ~ConditionHolds(other, true_atoms)

\* The combined result of an AND or OR, below the inversion if one was asked.
CombinedResult == IF gen.inverted THEN gen.result.with[1] ELSE gen.result

OperandsUninvertedInvertedOnce ==
    gen.condition.kind \in {"ExpressionBoolOR", "ExpressionBoolAND"} =>
        /\ gen.inverted => gen.result.call = "getConditionNotBoolCode"
        /\ CombinedResult.call = IF gen.condition.kind = "ExpressionBoolOR"
                                 THEN "getConditionOrCode" ELSE "getConditionAndCode"
        /\ Len(CombinedResult.with) = Len(gen.condition.kids)
        /\ \A i \in 1..Len(gen.condition.kids) :
               CombinedResult.with[i] =
                   generateConditionCode(gen.condition.kids[i], FALSE, FALSE,
                                         gen.python_version)

\* C27: the condition code emitted with inversion is the logical negation
\* of the code emitted without it; the operands of AND and OR are translated
\* without inversion and the inversion is applied once to the combination.
C27_InversionNegates ==
    ConditionTranslatedBothWays =>
        /\ IsNegationOf(gen.result, OtherInversion)
        /\ OperandsUninvertedInvertedOnce

C27_Witness ==
    /\ ConditionTranslatedBothWays
    /\ gen.inverted
    /\ gen.condition = GNode("ExpressionBoolOR", "",
                             <<Not(Comparison(VariableRef("a"), VariableRef("b"))),
                               VariableRef("a")>>)
    /\ gen.result.call = "getConditionNotBoolCode"
    /\ gen.result.with[1].call = "getConditionOrCode"

\* ------------------------------------------------------------------- C28
\* A slice assignment or a slice deletion was translated.
SliceStatementTranslated ==
    /\ Returned("generateAssignmentSliceCode") \/ Returned("generateDelSliceCode")
    /\ gen.result # AssertionError

\* The three translations of the same source, bounds and version.
LookupOfSlice ==
    generateSliceLookupCode(SliceLookup(gen.lookup_source, gen.lower, gen.upper),
                            gen.python_version)

AssignmentOfSlice ==
    generateAssignmentSliceCode(gen.lookup_source, gen.lower, gen.upper, AssignedValue,
                                gen.python_version)

DeletionOfSlice ==
    generateDelSliceCode(gen.lookup_source, gen.lower, gen.upper, gen.python_version)

\* The emission strategy of a slice code: indexed, native slice, or
\* subscript with a slice object.
SliceStrategy(code) ==
    CASE code.call \in {"getSliceLookupIndexesCode", "getSliceAssignmentIndexesCode",
                        "getSliceDelCode"} -> "indexed"
      [] code.call \in {"getSliceLookupCode", "getSliceAssignmentCode"} -> "native"
      [] /\ code.call \in {"getSubscriptLookupCode", "getSubscriptAssignmentCode",
                           "getSubscriptDelCode"}
         /\ code.with[2].call = "getSliceObjectCode" -> "slice object"
      [] OTHER -> "other"

\* C28 as stated: lookup, assignment and deletion of a slice use the same
\* strategy for the same bounds and version.
C28_SameStrategyAllThree ==
    SliceStatementTranslated =>
        /\ SliceStrategy(LookupOfSlice) = SliceStrategy(AssignmentOfSlice)
        /\ SliceStrategy(LookupOfSlice) = SliceStrategy(DeletionOfSlice)

\* C28 amended: lookup and assignment use the same strategy; the deletion
\* is indexed exactly when they are, and otherwise it is the subscript with
\* a slice object, also where they make the native slice call.
C28_DeletionIndexedOrSliceObject ==
    SliceStatementTranslated =>
        /\ SliceStrategy(LookupOfSlice) = SliceStrategy(AssignmentOfSlice)
        /\ SliceStrategy(LookupOfSlice) \in {"indexed", "native", "slice object"}
        /\ SliceStrategy(DeletionOfSlice) =
               IF SliceStrategy(LookupOfSlice) = "indexed" THEN "indexed"
               ELSE "slice object"

C28_Witness ==
    /\ SliceStatementTranslated
    /\ gen.op = "generateDelSliceCode"
    /\ gen.python_version = 270
    /\ gen.lower = VariableRef("b")
    /\ SliceStrategy(gen.result) = "slice object"
    /\ SliceStrategy(LookupOfSlice) = "native"

\* ------------------------------------------------------------------- C30
\* A slice was translated on the indexed path: the emission was given the
\* source, the lower and the upper index.
IndexedSliceTranslated ==
    \/ /\ TranslatedExpression({"ExpressionSliceLookup"})
       /\ gen.result.call = "getSliceLookupIndexesCode"
    \/ /\ SliceStatementTranslated
       /\ gen.result.call \in {"getSliceAssignmentIndexesCode", "getSliceDelCode"}

LowerBound == IF gen.op = "generateExpressionCode" THEN getLower(gen.expression) ELSE gen.lower

UpperBound == IF gen.op = "generateExpressionCode" THEN getUpper(gen.expression) ELSE gen.upper

\* 2^63 - 1 exceeds the whole part of the number, limb by limb.
WholePartBelowMaxIndex(limbs) ==
    \E i \in 1..Len(limbs) :
        /\ limbs[i] < MaxIndexLimbs[i]
        /\ \A j \in 1..(i - 1) : limbs[j] = MaxIndexLimbs[j]

IsLiteralIndex(bound) ==
    /\ bound.kind = "ExpressionConstantRef"
    /\ bound.value.type \in {"int", "long", "float"}
    /\ WholePartBelowMaxIndex(bound.value.value.limbs)

\* The whole number a literal index stands for.
LiteralIndexOf(bound) ==
    [type |-> "int",
     value |-> [sign |-> IF bound.value.value.limbs = <<0, 0, 0, 0>>
                         THEN 1 ELSE bound.value.value.sign,
                limbs |-> bound.value.value.limbs]]

IndexEmittedFor(bound, absent_code) ==
    IF bound.kind = "None" THEN Call(absent_code, <<>>)
    ELSE IF IsLiteralIndex(bound) THEN Call("getIndexValueCode", <<LiteralIndexOf(bound)>>)
    ELSE Call("getIndexCode", <<generateExpressionCode(bound, gen.python_version)>>)

\* C30: on the indexed slice path an absent lower bound is the minimum index
\* and an absent upper bound the maximum index; a bound that is there is a
\* literal index exactly when it is a number constant c with
\* |int(c)| < 2^63-1, and the index conversion of its translation otherwise;
\* each bound is decided by itself.
C30_IndexLiteralBelowMaxIndex ==
    IndexedSliceTranslated =>
        /\ gen.result.with[2] = IndexEmittedFor(LowerBound, "getMinIndexCode")
        /\ gen.result.with[3] = IndexEmittedFor(UpperBound, "getMaxIndexCode")

\* 2^63-2 below is a literal, -(2^63-1) above is not.
C30_Witness ==
    /\ IndexedSliceTranslated
    /\ LowerBound = Indexable(ConstantRef(Number(1, BelowMaxIndexLimbs)))
    /\ UpperBound = Indexable(ConstantRef(Number(-1, MaxIndexLimbs)))
    /\ gen.result.with[2].call = "getIndexValueCode"
    /\ gen.result.with[3].call = "getIndexCode"

====
